---- MODULE Spec2Model ----
(***************************************************************************)
(* Verification model of the request.js payment-network code.              *)
(*                                                                         *)
(* Part 1: AnyToErc20ProxyPaymentNetwork                                   *)
(*   packages/advanced-logic/src/extensions/payment-network/               *)
(*   any-to-erc20-proxy.ts                                                 *)
(*                                                                         *)
(* Spec        the interpreter applyActionToExtension driven by a caller   *)
(*             that threads the returned extensions map through a batch of *)
(*             extension actions applied against one request state and     *)
(*             then commits (or discards) the batch.                       *)
(* SpecCreate  createCreationAction applied to bounded creation parameters.*)
(*                                                                         *)
(* Part 2: PaymentNetworkERC20AddressBased.getBalance                      *)
(*   packages/request-client.js/src/api/payment-network/erc20/             *)
(*   address-based.ts                                                      *)
(* SpecBalance one getBalance call, stepped at its awaits, over a bounded  *)
(*             ledger of transfer events.                                  *)
(*                                                                         *)
(* Part 3: ProxyChainlinkConversionPath (Solidity)                         *)
(* SpecProxy   transactions calling transferFromWithReferenceAndFee while  *)
(*             blocks are mined and the rate is refreshed.                 *)
(*                                                                         *)
(* Part 4: ChainlinkConversionPathTools.getAggregators, listAggregators    *)
(*   packages/toolbox/src/chainlinkConversionPathTools.ts                  *)
(* SpecTools   getAggregators folded over a bounded AggregatorUpdated      *)
(*             stream, the currency-pair graph and a path search on it.    *)
(*                                                                         *)
(* Part 5: request-node configuration getters                              *)
(*   packages/request-node/src/config.ts                                   *)
(* SpecConfig  the numeric getters and getMnemonic over bounded argv/env.   *)
(*                                                                         *)
(* Part 6: payment-processor ERC20 functions                               *)
(*   hasErc20Approval, approveErc20, approveErc20WithMultisig,             *)
(*   payErc20WithMultisig                                                  *)
(* SpecPayment these functions called on one request while the allowance   *)
(*             changes and transactions are submitted to a multisig.       *)
(***************************************************************************)
EXTENDS Integers, Sequences, FiniteSets, TLC

VARIABLES
  currency,          \* requestState.currency: [type, value]
  requestExtensions, \* requestState.extensions: map extension id -> state
  extensionsState,   \* the extensions map the caller threads through calls
  lastCall,          \* the last applyActionToExtension call and its outcome
  createdCount,      \* per id: CREATEs applied successfully into extensionsState
  committedCount,    \* per id: CREATEs applied successfully into requestExtensions
  creationParameters,\* the argument of createCreationAction
  creationResult     \* the outcome of createCreationAction

VARIABLES
  request,           \* the request object handed to getBalance (caller's object)
  requestGiven,      \* the content of that object when getBalance was called
  transferEvents,    \* ledger: transfer events per event name (PAYMENT, REFUND)
  queries,           \* getTransferEvents calls issued so far, in order
  pc,                \* position of the getBalance call
  payments,          \* local `payments` of getBalance
  refunds,           \* local `refunds` of getBalance
  balanceResult      \* outcome of getBalance

VARIABLES
  blockTimestamp,    \* block.timestamp of the block being mined
  rateAnswer,        \* what chainlinkConversionPath.getRate answers
  tokenTransfers,    \* transfers performed through the payment proxy
  proxyEvents,       \* TransferWithReferenceAndFee events emitted
  lastTx             \* the last transaction and its outcome

VARIABLES
  logs,              \* AggregatorUpdated logs returned by provider.getLogs
  aggregators,       \* outcome of getAggregators
  nodesForDijkstra,  \* aggregatorsNodesForDijkstra[network] of listAggregators
  pathResult         \* outcome of the path search on that graph

VARIABLES
  argv,              \* yargs argv
  env,               \* process.env
  networkIdResult,   \* outcome of getStorageNetworkId
  mnemonicResult,    \* outcome of getMnemonic
  numberResult       \* the last call of another numeric getter and its outcome

VARIABLES
  requestToPay,      \* the request handed to the payment functions
  allowance,         \* token.allowance(account, ERC20 proxy), on chain
  approvalResult,    \* outcome of hasErc20Approval
  submitted          \* transactions submitted to the multisig contract

extensionVars == <<currency, requestExtensions, extensionsState, lastCall,
                   createdCount, committedCount, creationParameters, creationResult>>
balanceVars == <<request, requestGiven, transferEvents, queries, pc, payments,
                 refunds, balanceResult>>
proxyVars == <<blockTimestamp, rateAnswer, tokenTransfers, proxyEvents, lastTx>>
toolVars == <<logs, aggregators, nodesForDijkstra, pathResult>>
configVars == <<argv, env, networkIdResult, mnemonicResult, numberResult>>
paymentVars == <<requestToPay, allowance, approvalResult, submitted>>

vars == <<extensionVars, balanceVars, proxyVars, toolVars, configVars, paymentVars>>

\* A part of the program that a specification does not exercise stays idle.
Idle == "idle"
ExtensionIdle == /\ currency = Idle /\ requestExtensions = Idle
                 /\ extensionsState = Idle /\ lastCall = Idle
                 /\ createdCount = Idle /\ committedCount = Idle
                 /\ creationParameters = Idle /\ creationResult = Idle
BalanceIdle == /\ request = Idle /\ requestGiven = Idle /\ transferEvents = Idle
               /\ queries = Idle /\ pc = Idle /\ payments = Idle
               /\ refunds = Idle /\ balanceResult = Idle
ProxyIdle == /\ blockTimestamp = Idle /\ rateAnswer = Idle /\ tokenTransfers = Idle
             /\ proxyEvents = Idle /\ lastTx = Idle
ToolsIdle == /\ logs = Idle /\ aggregators = Idle /\ nodesForDijkstra = Idle
             /\ pathResult = Idle
ConfigIdle == /\ argv = Idle /\ env = Idle /\ networkIdResult = Idle
              /\ mnemonicResult = Idle /\ numberResult = Idle
PaymentIdle == /\ requestToPay = Idle /\ allowance = Idle
               /\ approvalResult = Idle /\ submitted = Idle

----------------------------------------------------------------------------
(* Bounds *)

\* A behaviour applies at most MaxCreates successful CREATEs per extension id
\* into one extensions map (caps the history counter createdCount).
MaxCreates == 2
\* acceptedTokens lists of createCreationAction have at most MaxTokens entries.
MaxTokens == 2

----------------------------------------------------------------------------
(* Constants of the source *)

CURRENT_VERSION == "0.1.0"
DEFAULT_NETWORK == "mainnet"
PAYMENT_NETWORK_ANY_TO_ERC20_PROXY == "pn-any-to-erc20-proxy"

\* A JS value that is undefined (or the empty string): falsy in `x || y`, `!x`.
Undefined == ""

ISO4217 == "ISO4217"
ERC20 == "ERC20"
ETH == "ETH"
BTC == "BTC"

CREATE == "create"
ADD_PAYMENT_ADDRESS == "addPaymentAddress"
ADD_REFUND_ADDRESS == "addRefundAddress"
ADD_FEE == "addFee"

\* Token addresses used as inputs.
TokPrivate == "0x38cf23c52bb4b13f051aec09580a2de845a7fa35"
TokPrivateMixed == "0x38cF23C52Bb4B13F051Aec09580a2dE845a7FA35"
TokRinkeby == "0xfab46e002bbf0b4509813474841e0716e6730136"
TokDai == "0x6b175474e89094c44da98b954eedeac495271d0f"
TokUnsupported == "0x775eb53d00dd0acd3ec1696472105d579b9b386b"
NotAnAddress == "0xnotanaddress"
PayAddress == "0xf17f52151EbEF6C7334FAD080c5704D77216b732"
FeeAddress == "0xC5fdf4076b8F3A5357c5E395ab970B5B54098Fef"

supportedCurrencies ==
  [ private |->
      [ ISO4217 |-> <<"USD", "EUR">>,
        ERC20   |-> <<"0x38cf23c52bb4b13f051aec09580a2de845a7fa35">>,
        ETH     |-> <<"ETH">>,
        BTC     |-> << >> ],
    rinkeby |->
      [ ISO4217 |-> <<"EUR", "GBP", "USD">>,
        ERC20   |-> <<"0xfab46e002bbf0b4509813474841e0716e6730136">>,
        ETH     |-> <<"ETH">>,
        BTC     |-> << >> ],
    mainnet |->
      [ ISO4217 |-> <<"AUD", "CAD", "CHF", "EUR", "GBP", "SGD", "USD">>,
        ERC20   |-> << "0x1f573d6fb3f13d689ff844b4ce37794d79a7ff1c",
                       "0x3845badade8e6dff049820680d1f14bd3903a5d0",
                       "0x4e15361fd6b4bb609fa63c81a2be19d873717870",
                       "0x6b175474e89094c44da98b954eedeac495271d0f",
                       "0x7fc66500c84a76ad7e9c93437bfc5ac33e2ddae9",
                       "0x8290333cef9e6d528dd5618fb97a76f268f3edd4",
                       "0x967da4048cd07ab37855c090aaf366e4ce1b9f48",
                       "0x9f8f72aa9304c8b593d555f12ef6589cc3a579a2",
                       "0xa0b86991c6218b36c1d19d4a2e9eb0ce3606eb48",
                       "0xa117000000f279d81a1d3cc75430faa017fa5a2e",
                       "0xc944e90c64b2c07662a292be6244bdf05cda44a7",
                       "0xdac17f958d2ee523a2206206994597c13d831ec7" >>,
        ETH     |-> <<"ETH">>,
        BTC     |-> << >> ] ]

----------------------------------------------------------------------------
(* Library functions the source calls *)

\* Array.prototype.includes
Includes(list, x) == \E i \in 1..Len(list) : list[i] = x

\* String.prototype.toLowerCase on the strings of the model: the strings that
\* hold an upper-case letter map to their lower-case form, the rest are fixed.
toLowerCase(s) ==
  CASE s = TokPrivateMixed -> TokPrivate
    [] s = PayAddress -> "0xf17f52151ebef6c7334fad080c5704d77216b732"
    [] s = FeeAddress -> "0xc5fdf4076b8f3a5357c5e395ab970b5b54098fef"
    [] s = "ETH" -> "eth"
    [] s = "BTC" -> "btc"
    [] s = "EUR" -> "eur"
    [] s = "GBP" -> "gbp"
    [] s = "USD" -> "usd"
    [] s = "XYZ" -> "xyz"
    [] s = "0x17B4158805772Ced11225E77339F90BeB5aAE968" ->
         "0x17b4158805772ced11225e77339f90beb5aae968"
    [] s = "0x775EB53d00DD0Acd3EC1696472105d579B9b386b" ->
         "0x775eb53d00dd0acd3ec1696472105d579b9b386b"
    [] s = "0x6B175474E89094C44Da98b954EedeAC495271d0F" ->
         "0x6b175474e89094c44da98b954eedeac495271d0f"
    [] OTHER -> s

\* isValidAddress of the payment network (an Ethereum address check).
isValidAddress(address) ==
  address \in { TokPrivate, TokPrivateMixed, TokRinkeby, TokDai, TokUnsupported,
                PayAddress, FeeAddress }

\* Utils.amount.isValid: a non-negative integer given as a decimal string.
isValidAmount(amount) == amount \in {"0", "2", "100"}

----------------------------------------------------------------------------
(* Results of a call: err = NoError and the value returned, or the error    *)
(* thrown and no value.                                                     *)

NoError == "ok"
NoMap == << >>

\* JS objects are references. A call works on two extensions-map objects: "arg",
\* the object the caller passed, and "copy", the object Utils.deepCopy made.
\* A store gives the content of both; an outcome gives the error thrown (or
\* NoError), the map returned (NoMap when it threw) and the content the
\* caller's own object has after the call.
Return(store, obj) == [err |-> NoError, ret |-> store[obj], arg |-> store.arg]
Throw(store, e) == [err |-> e, ret |-> NoMap, arg |-> store.arg]

\* map[id] = state, on a map held as a function over the ids it has.
SetEntry(map, id, state) ==
  [i \in DOMAIN map \cup {id} |-> IF i = id THEN state ELSE map[i]]

\* store[obj][id] = state: a write through one reference.
Write(store, obj, id, state) ==
  [store EXCEPT ![obj] = SetEntry(store[obj], id, state)]

\* Utils.deepCopy: a value equal to its argument, held by a new object.
deepCopy(value) == value

----------------------------------------------------------------------------
(* The request the actions are applied to *)

\* Identities: the request's creator and payee, its payer, and a third party.
Alice == "alice"
Bob == "bob"
Mallory == "mallory"
Identities == {Alice, Bob, Mallory}

RequestState(cur, exts) ==
  [ currency |-> cur, extensions |-> exts,
    creator |-> Alice, payee |-> Alice, payer |-> Bob ]

----------------------------------------------------------------------------
(* checkSupportedCurrency *)

ErrNetworkNotSupported == "The network is not supported for this payment network"
ErrCurrencyTypeNotSupported == "The currency type of the request is not supported for this payment network"
ErrCurrencyNotSupported == "The currency of the request is not supported for this payment network"

checkSupportedCurrency(cur, network) ==
  IF network \notin DOMAIN supportedCurrencies
    THEN ErrNetworkNotSupported
  ELSE IF cur.type \notin DOMAIN supportedCurrencies[network]
    THEN ErrCurrencyTypeNotSupported
  ELSE LET normalizedCurrencyValue ==
             IF cur.type # ISO4217 THEN toLowerCase(cur.value) ELSE cur.value
       IN IF ~Includes(supportedCurrencies[network][cur.type], normalizedCurrencyValue)
            THEN ErrCurrencyNotSupported
            ELSE NoError

----------------------------------------------------------------------------
(* The payment networks AnyToErc20Proxy extends and delegates to:           *)
(* Erc20FeeProxyPaymentNetwork and ReferenceBased                           *)

ErrPaymentAddressInvalid == "paymentAddress is not a valid address"
ErrRefundAddressInvalid == "refundAddress is not a valid address"
ErrFeeAddressInvalid == "feeAddress is not a valid address"
ErrFeeAmountInvalid == "feeAmount is not a valid amount"
ErrSaltEmpty == "salt should not be empty"
ErrPaymentAddressGiven == "Payment address already given"
ErrRefundAddressGiven == "Refund address already given"
ErrFeeGiven == "Fee address already given"
ErrNoPayee == "The request must have a payee"
ErrNoPayer == "The request must have a payer"
ErrSignerNotPayee == "The signer must be the payee"
ErrSignerNotPayer == "The signer must be the payer"

Event(name, parameters, timestamp) ==
  [name |-> name, parameters |-> parameters, timestamp |-> timestamp]

\* The parameter checks shared by the base createCreationAction and applyCreation.
BaseCreationError(parameters) ==
  IF parameters.paymentAddress # Undefined /\ ~isValidAddress(parameters.paymentAddress)
    THEN ErrPaymentAddressInvalid
  ELSE IF parameters.refundAddress # Undefined /\ ~isValidAddress(parameters.refundAddress)
    THEN ErrRefundAddressInvalid
  ELSE IF parameters.feeAddress # Undefined /\ ~isValidAddress(parameters.feeAddress)
    THEN ErrFeeAddressInvalid
  ELSE IF parameters.feeAmount # Undefined /\ ~isValidAmount(parameters.feeAmount)
    THEN ErrFeeAmountInvalid
  ELSE NoError

\* Erc20FeeProxyPaymentNetwork.createCreationAction
superCreateCreationAction(parameters) ==
  IF BaseCreationError(parameters) # NoError
    THEN [err |-> BaseCreationError(parameters), reachedSuper |-> TRUE]
    ELSE [err |-> NoError, reachedSuper |-> TRUE,
          action |-> [action |-> CREATE, id |-> PAYMENT_NETWORK_ANY_TO_ERC20_PROXY,
                      parameters |-> parameters, version |-> CURRENT_VERSION]]

\* Erc20FeeProxyPaymentNetwork.applyCreation
superApplyCreation(extensionAction, timestamp) ==
  LET p == extensionAction.parameters IN
  IF BaseCreationError(p) # NoError THEN [err |-> BaseCreationError(p)]
  ELSE IF p.salt = Undefined THEN [err |-> ErrSaltEmpty]
  ELSE [err |-> NoError,
        state |-> [ id |-> PAYMENT_NETWORK_ANY_TO_ERC20_PROXY,
                    type |-> "payment-network",
                    version |-> CURRENT_VERSION,
                    events |-> <<Event(CREATE,
                                        [ paymentAddress |-> p.paymentAddress,
                                          refundAddress |-> p.refundAddress,
                                          feeAddress |-> p.feeAddress,
                                          feeAmount |-> p.feeAmount,
                                          salt |-> p.salt ],
                                        timestamp)>>,
                    values |-> [ paymentAddress |-> p.paymentAddress,
                                 refundAddress |-> p.refundAddress,
                                 feeAddress |-> p.feeAddress,
                                 feeAmount |-> p.feeAmount,
                                 salt |-> p.salt ] ]]

\* ReferenceBased.applyAddPaymentAddress
applyAddPaymentAddress(extensionState, extensionAction, requestState, actionSigner, timestamp) ==
  LET p == extensionAction.parameters IN
  IF p.paymentAddress # Undefined /\ ~isValidAddress(p.paymentAddress)
    THEN [err |-> ErrPaymentAddressInvalid]
  ELSE IF extensionState.values.paymentAddress # Undefined
    THEN [err |-> ErrPaymentAddressGiven]
  ELSE IF requestState.payee = Undefined THEN [err |-> ErrNoPayee]
  ELSE IF actionSigner # requestState.payee THEN [err |-> ErrSignerNotPayee]
  ELSE [err |-> NoError,
        state |-> [extensionState EXCEPT
                     !.values.paymentAddress = p.paymentAddress,
                     !.events = Append(@, Event(ADD_PAYMENT_ADDRESS,
                                              [paymentAddress |-> p.paymentAddress],
                                              timestamp))]]

\* ReferenceBased.applyAddRefundAddress
applyAddRefundAddress(extensionState, extensionAction, requestState, actionSigner, timestamp) ==
  LET p == extensionAction.parameters IN
  IF p.refundAddress # Undefined /\ ~isValidAddress(p.refundAddress)
    THEN [err |-> ErrRefundAddressInvalid]
  ELSE IF extensionState.values.refundAddress # Undefined
    THEN [err |-> ErrRefundAddressGiven]
  ELSE IF requestState.payer = Undefined THEN [err |-> ErrNoPayer]
  ELSE IF actionSigner # requestState.payer THEN [err |-> ErrSignerNotPayer]
  ELSE [err |-> NoError,
        state |-> [extensionState EXCEPT
                     !.values.refundAddress = p.refundAddress,
                     !.events = Append(@, Event(ADD_REFUND_ADDRESS,
                                              [refundAddress |-> p.refundAddress],
                                              timestamp))]]

\* Erc20FeeProxyPaymentNetwork.applyAddFee
applyAddFee(extensionState, extensionAction, requestState, actionSigner, timestamp) ==
  LET p == extensionAction.parameters IN
  IF p.feeAddress # Undefined /\ ~isValidAddress(p.feeAddress)
    THEN [err |-> ErrFeeAddressInvalid]
  ELSE IF extensionState.values.feeAddress # Undefined
    THEN [err |-> ErrFeeGiven]
  ELSE IF p.feeAmount # Undefined /\ ~isValidAmount(p.feeAmount)
    THEN [err |-> ErrFeeAmountInvalid]
  ELSE IF requestState.payee = Undefined THEN [err |-> ErrNoPayee]
  ELSE IF actionSigner # requestState.payee THEN [err |-> ErrSignerNotPayee]
  ELSE [err |-> NoError,
        state |-> [extensionState EXCEPT
                     !.values.feeAddress = p.feeAddress,
                     !.values.feeAmount = p.feeAmount,
                     !.events = Append(@, Event(ADD_FEE,
                                              [feeAddress |-> p.feeAddress,
                                               feeAmount |-> p.feeAmount],
                                              timestamp))]]

----------------------------------------------------------------------------
(* AnyToErc20ProxyPaymentNetwork.applyCreation *)

ErrNetworkRequired == "network is required"
ErrAcceptedTokensRequired == "acceptedTokens is required and cannot be empty"
ErrAcceptedTokensInvalid == "acceptedTokens must contains only valid ethereum addresses"

\* Array.prototype.some((address) => !isValidAddress(address))
SomeInvalidAddress(tokens) == \E i \in 1..Len(tokens) : ~isValidAddress(tokens[i])

applyCreation(extensionAction, timestamp) ==
  LET p == extensionAction.parameters IN
  IF p.network = Undefined THEN [err |-> ErrNetworkRequired]
  ELSE IF Len(p.acceptedTokens) = 0 THEN [err |-> ErrAcceptedTokensRequired]
  ELSE IF SomeInvalidAddress(p.acceptedTokens) THEN [err |-> ErrAcceptedTokensInvalid]
  ELSE LET feePNCreationAction == superApplyCreation(extensionAction, timestamp) IN
       IF feePNCreationAction.err # NoError THEN [err |-> feePNCreationAction.err]
       ELSE [err |-> NoError,
             state |-> [ id |-> feePNCreationAction.state.id,
                         type |-> feePNCreationAction.state.type,
                         version |-> feePNCreationAction.state.version,
                         events |->
                           <<Event(CREATE,
                                   [ feeAddress |-> p.feeAddress,
                                     feeAmount |-> p.feeAmount,
                                     paymentAddress |-> p.paymentAddress,
                                     refundAddress |-> p.refundAddress,
                                     salt |-> p.salt,
                                     network |-> IF p.network # Undefined THEN p.network
                                                                          ELSE DEFAULT_NETWORK,
                                     acceptedTokens |-> p.acceptedTokens,
                                     maxRateTimespan |-> p.maxRateTimespan ],
                                   timestamp)>>,
                         values |->
                           [ paymentAddress |-> feePNCreationAction.state.values.paymentAddress,
                             refundAddress |-> feePNCreationAction.state.values.refundAddress,
                             feeAddress |-> feePNCreationAction.state.values.feeAddress,
                             feeAmount |-> feePNCreationAction.state.values.feeAmount,
                             salt |-> feePNCreationAction.state.values.salt,
                             network |-> IF p.network # Undefined THEN p.network
                                                                  ELSE DEFAULT_NETWORK,
                             acceptedTokens |-> p.acceptedTokens,
                             maxRateTimespan |-> p.maxRateTimespan ] ]]

----------------------------------------------------------------------------
(* AnyToErc20ProxyPaymentNetwork.applyActionToExtension *)

ErrAlreadyCreated == "This extension has already been created"
ErrNotCreated == "The extension should be created before receiving any other action"
ErrUnknownAction == "Unknown action"
\* Reading a property of undefined (copiedExtensionState[id].values).
ErrTypeError == "TypeError"

\* extensionAction.parameters.network || DEFAULT_NETWORK
ActionNetwork(extensionAction) ==
  IF extensionAction.parameters.network # Undefined
    THEN extensionAction.parameters.network
    ELSE DEFAULT_NETWORK

\* The currency check that opens applyActionToExtension.
CurrencyGateOnCreateOnly(requestState, extensionAction) ==
  IF extensionAction.action = CREATE
    THEN checkSupportedCurrency(requestState.currency, ActionNetwork(extensionAction))
    ELSE NoError
CurrencyGate(requestState, extensionAction) ==
  checkSupportedCurrency(requestState.currency, ActionNetwork(extensionAction))

\* The object the writes of applyActionToExtension go to.
AliasedObject == "arg"
CopiedObject == "copy"

\* `if (requestState.extensions[extensionAction.id]) throw` of the CREATE branch.
CreateGate(requestState, extensionAction) ==
  IF extensionAction.id \in DOMAIN requestState.extensions
    THEN ErrAlreadyCreated
    ELSE NoError

\* `if (!requestState.extensions[extensionAction.id]) throw` of the other actions.
NotCreatedGateMissing(requestState, extensionAction) == NoError
NotCreatedGate(requestState, extensionAction) ==
  IF extensionAction.id \notin DOMAIN requestState.extensions
    THEN ErrNotCreated
    ELSE NoError

\* The call of ReferenceBased.applyAddPaymentAddress.
CallAddPaymentAddressAsPayee(extensionState, extensionAction, requestState, actionSigner, timestamp) ==
  applyAddPaymentAddress(extensionState, extensionAction, requestState,
                         requestState.payee, timestamp)
CallAddPaymentAddress(extensionState, extensionAction, requestState, actionSigner, timestamp) ==
  applyAddPaymentAddress(extensionState, extensionAction, requestState,
                         actionSigner, timestamp)

\* The call of ReferenceBased.applyAddRefundAddress.
CallAddRefundAddress(extensionState, extensionAction, requestState, actionSigner, timestamp) ==
  applyAddRefundAddress(extensionState, extensionAction, requestState,
                        actionSigner, timestamp)

\* The call of this.applyAddFee.
CallAddFee(extensionState, extensionAction, requestState, actionSigner, timestamp) ==
  applyAddFee(extensionState, extensionAction, requestState, actionSigner, timestamp)

\* The last statement: throw Error(`Unknown action: ...`).
UnknownActionIgnored(store, extensionAction) == Return(store, CopiedObject)
UnknownAction(store, extensionAction) == Throw(store, ErrUnknownAction)

\* The branch of one non-CREATE action: the applier's result is written to
\* copiedExtensionState[id], which is returned.
Branch(store, id, applied) ==
  IF applied.err # NoError
    THEN Throw(store, applied.err)
    ELSE Return(Write(store, CopiedObject, id, applied.state), CopiedObject)

applyActionToExtension(extensionsStateArg, extensionAction, requestState, actionSigner, timestamp) ==
  LET store0 == [arg |-> extensionsStateArg, copy |-> extensionsStateArg]
      gate == CurrencyGate(requestState, extensionAction)
      \* const copiedExtensionState = Utils.deepCopy(extensionsState)
      store == [store0 EXCEPT ![CopiedObject] = deepCopy(extensionsStateArg)]
      id == extensionAction.id
  IN
  IF gate # NoError THEN Throw(store0, gate)
  ELSE IF extensionAction.action = CREATE THEN
    IF CreateGate(requestState, extensionAction) # NoError
      THEN Throw(store, CreateGate(requestState, extensionAction))
      ELSE Branch(store, id, applyCreation(extensionAction, timestamp))
  ELSE IF NotCreatedGate(requestState, extensionAction) # NoError
    THEN Throw(store, NotCreatedGate(requestState, extensionAction))
  ELSE IF extensionAction.action \in {ADD_PAYMENT_ADDRESS, ADD_REFUND_ADDRESS, ADD_FEE}
          /\ id \notin DOMAIN store[CopiedObject]
    THEN Throw(store, ErrTypeError)
  ELSE IF extensionAction.action = ADD_PAYMENT_ADDRESS THEN
    Branch(store, id, CallAddPaymentAddress(store[CopiedObject][id], extensionAction,
                                            requestState, actionSigner, timestamp))
  ELSE IF extensionAction.action = ADD_REFUND_ADDRESS THEN
    Branch(store, id, CallAddRefundAddress(store[CopiedObject][id], extensionAction,
                                           requestState, actionSigner, timestamp))
  ELSE IF extensionAction.action = ADD_FEE THEN
    Branch(store, id, CallAddFee(store[CopiedObject][id], extensionAction,
                                 requestState, actionSigner, timestamp))
  ELSE UnknownAction(store, extensionAction)

----------------------------------------------------------------------------
(* AnyToErc20ProxyPaymentNetwork.createCreationAction *)

ErrAcceptedTokensRequiredAtCreation == "acceptedTokens is required"
ErrNetworkNotSupportedAtCreation == "network not supported"
ErrTokenNotSupported == "acceptedTokens must contain only supported token addresses (ERC20 only)"

\* An error of createCreationAction: its message with the address and the
\* network the message names (Undefined when it names none).
CreationError(msg, address, network) ==
  [err |-> [msg |-> msg, address |-> address, network |-> network],
   reachedSuper |-> FALSE]

\* The first address of the list the for loop throws on: the first one whose
\* lower-case form is not in supportedErc20 (0 when there is none).
FirstUnsupportedHeadOnly(tokens, supportedErc20, i) ==
  IF Len(tokens) >= 1 /\ ~Includes(supportedErc20, toLowerCase(tokens[1])) THEN 1 ELSE 0
RECURSIVE FirstUnsupported(_, _, _)
FirstUnsupported(tokens, supportedErc20, i) ==
  IF i > Len(tokens) THEN 0
  ELSE IF ~Includes(supportedErc20, toLowerCase(tokens[i])) THEN i
  ELSE FirstUnsupported(tokens, supportedErc20, i + 1)

\* `!acceptedTokens || acceptedTokens.length === 0`
TokensMissingUnchecked(parameters) == FALSE
TokensMissing(parameters) == Len(parameters.acceptedTokens) = 0

\* The for loop over acceptedTokens and the call of super.createCreationAction.
CheckTokensAndCreate(parameters, network) ==
  LET supportedErc20 == supportedCurrencies[network][ERC20]
      bad == FirstUnsupported(parameters.acceptedTokens, supportedErc20, 1)
  IN IF bad # 0
       THEN CreationError(ErrTokenNotSupported, parameters.acceptedTokens[bad], network)
       ELSE LET base == superCreateCreationAction(parameters) IN
            [base EXCEPT !.err = [msg |-> base.err, address |-> Undefined,
                                  network |-> Undefined]]

createCreationAction(parameters) ==
  IF TokensMissing(parameters)
    THEN CreationError(ErrAcceptedTokensRequiredAtCreation, Undefined, Undefined)
  ELSE IF SomeInvalidAddress(parameters.acceptedTokens)
    THEN CreationError(ErrAcceptedTokensInvalid, Undefined, Undefined)
  ELSE LET network == parameters.network IN
    IF network = Undefined
      THEN CreationError(ErrNetworkRequired, Undefined, Undefined)
    ELSE IF network \notin DOMAIN supportedCurrencies
      THEN CreationError(ErrNetworkNotSupportedAtCreation, Undefined, network)
    ELSE CheckTokensAndCreate(parameters, network)

----------------------------------------------------------------------------
(* Inputs of the apply machine *)

CONTENT_DATA == "content-data"

\* The ids of the extension actions routed to this payment network.
ActionIds == {PAYMENT_NETWORK_ANY_TO_ERC20_PROXY}

\* The timestamp the caller passes: one request action carries one timestamp.
Timestamps == {1600000000}

\* Invoicing currencies a request may carry.
Currencies ==
  { [type |-> ISO4217, value |-> "EUR"],
    [type |-> ISO4217, value |-> "GBP"],
    [type |-> ERC20, value |-> TokPrivateMixed],
    [type |-> ETH, value |-> "ETH"],
    [type |-> "UNKNOWN", value |-> "XYZ"] }

\* Networks an action may declare (Undefined: none declared).
Networks == {Undefined, "private", "rinkeby", "mainnet", "kovan"}
FollowUpNetworks == {Undefined, "private"}

Parameters(network, acceptedTokens, paymentAddress, refundAddress, feeAddress, feeAmount) ==
  [ network |-> network, acceptedTokens |-> acceptedTokens,
    paymentAddress |-> paymentAddress, refundAddress |-> refundAddress,
    feeAddress |-> feeAddress, feeAmount |-> feeAmount,
    salt |-> "ea3bc7caf64110ca", maxRateTimespan |-> Undefined ]

ExtensionAction(action, id, parameters) ==
  [action |-> action, id |-> id, parameters |-> parameters,
   version |-> CURRENT_VERSION]

ApplyTokenLists == { << >>, <<TokPrivateMixed>>, <<NotAnAddress>> }

\* The state of another extension (content data) a request may already hold.
ContentDataState ==
  [ id |-> CONTENT_DATA, type |-> "content-data", version |-> "0.1.0",
    events |-> << >>, values |-> [content |-> "invoice"] ]

EmptyMap == [i \in {} |-> ContentDataState]

NoCall == [called |-> FALSE]

----------------------------------------------------------------------------
(* The apply machine *)

Init ==
  /\ currency \in Currencies
  /\ requestExtensions = [i \in {CONTENT_DATA} |-> ContentDataState]
  /\ extensionsState = requestExtensions
  /\ lastCall = NoCall
  /\ createdCount = [i \in ActionIds |-> 0]
  /\ committedCount = [i \in ActionIds |-> 0]
  /\ creationParameters = Parameters(Undefined, << >>, Undefined, Undefined, Undefined, Undefined)
  /\ creationResult = NoCall
  /\ BalanceIdle /\ ProxyIdle /\ ToolsIdle /\ ConfigIdle /\ PaymentIdle

\* One call of applyActionToExtension by the caller, which keeps the returned
\* map for the next call; when the call throws the caller's map is what the
\* call left of the object it was given.
Apply(action, id, network, acceptedTokens, paymentAddress, refundAddress, feeAddress, feeAmount, actionSigner, timestamp) ==
  LET extensionAction ==
        ExtensionAction(action, id,
          Parameters(network, acceptedTokens, paymentAddress, refundAddress,
                     feeAddress, feeAmount))
      out == applyActionToExtension(extensionsState, extensionAction,
                                    RequestState(currency, requestExtensions),
                                    actionSigner, timestamp)
      created == out.err = NoError /\ action = CREATE
  IN
  /\ created => createdCount[id] < MaxCreates
  /\ lastCall' = [ called |-> TRUE, action |-> extensionAction,
                   signer |-> actionSigner, timestamp |-> timestamp,
                   before |-> extensionsState, request |-> requestExtensions,
                   out |-> out ]
  /\ extensionsState' = IF out.err = NoError THEN out.ret ELSE out.arg
  /\ createdCount' = IF created
                       THEN [createdCount EXCEPT ![id] = @ + 1]
                       ELSE createdCount
  /\ UNCHANGED <<currency, requestExtensions, committedCount,
                 creationParameters, creationResult>>
  /\ UNCHANGED <<balanceVars, proxyVars, toolVars, configVars, paymentVars>>

ApplyCreate ==
  \E id \in ActionIds, network \in Networks, tokens \in ApplyTokenLists,
     signer \in {Alice, Mallory}, timestamp \in Timestamps :
    Apply(CREATE, id, network, tokens, Undefined, Undefined, Undefined, Undefined,
          signer, timestamp)

ApplyAddPaymentAddress ==
  \E id \in ActionIds, network \in FollowUpNetworks,
     paymentAddress \in {PayAddress, NotAnAddress},
     signer \in Identities, timestamp \in Timestamps :
    Apply(ADD_PAYMENT_ADDRESS, id, network, << >>, paymentAddress, Undefined,
          Undefined, Undefined, signer, timestamp)

ApplyAddRefundAddress ==
  \E id \in ActionIds, network \in FollowUpNetworks,
     refundAddress \in {PayAddress},
     signer \in Identities, timestamp \in Timestamps :
    Apply(ADD_REFUND_ADDRESS, id, network, << >>, Undefined, refundAddress,
          Undefined, Undefined, signer, timestamp)

ApplyAddFee ==
  \E id \in ActionIds, network \in FollowUpNetworks,
     feeAddress \in {FeeAddress},
     signer \in Identities, timestamp \in Timestamps :
    Apply(ADD_FEE, id, network, << >>, Undefined, Undefined, feeAddress, "2",
          signer, timestamp)

ApplyUnknown ==
  \E id \in ActionIds, network \in FollowUpNetworks,
     signer \in {Alice}, timestamp \in Timestamps :
    Apply("addSomething", id, network, << >>, Undefined, Undefined, Undefined,
          Undefined, signer, timestamp)

\* The request action succeeded: the request takes the threaded map.
CommitBatch ==
  /\ extensionsState # requestExtensions
  /\ requestExtensions' = extensionsState
  /\ committedCount' = createdCount
  /\ lastCall' = NoCall
  /\ UNCHANGED <<currency, extensionsState, createdCount,
                 creationParameters, creationResult>>
  /\ UNCHANGED <<balanceVars, proxyVars, toolVars, configVars, paymentVars>>

\* The request action is dropped: the caller starts again from the request.
AbortBatch ==
  /\ extensionsState # requestExtensions
  /\ extensionsState' = requestExtensions
  /\ createdCount' = committedCount
  /\ lastCall' = NoCall
  /\ UNCHANGED <<currency, requestExtensions, committedCount,
                 creationParameters, creationResult>>
  /\ UNCHANGED <<balanceVars, proxyVars, toolVars, configVars, paymentVars>>

Next ==
  \/ ApplyCreate
  \/ ApplyAddPaymentAddress
  \/ ApplyAddRefundAddress
  \/ ApplyAddFee
  \/ ApplyUnknown
  \/ CommitBatch
  \/ AbortBatch

Spec == Init /\ [][Next]_vars

----------------------------------------------------------------------------
(* createCreationAction on bounded creation parameters *)

TokenUniverse == {TokPrivate, TokPrivateMixed, TokDai, TokUnsupported, NotAnAddress}

\* acceptedTokens lists of at most MaxTokens entries.
TokenLists == UNION { [1..n -> TokenUniverse] : n \in 0..MaxTokens }

InitCreate ==
  /\ currency = [type |-> ISO4217, value |-> "EUR"]
  /\ requestExtensions = [i \in {CONTENT_DATA} |-> ContentDataState]
  /\ extensionsState = requestExtensions
  /\ lastCall = NoCall
  /\ createdCount = [i \in ActionIds |-> 0]
  /\ committedCount = [i \in ActionIds |-> 0]
  /\ \E network \in Networks, tokens \in TokenLists,
        paymentAddress \in {Undefined, PayAddress, NotAnAddress} :
       creationParameters =
         Parameters(network, tokens, paymentAddress, Undefined, Undefined, Undefined)
  /\ creationResult = NoCall
  /\ BalanceIdle /\ ProxyIdle /\ ToolsIdle /\ ConfigIdle /\ PaymentIdle

CreateCreationAction ==
  /\ creationResult = NoCall
  /\ creationResult' = [called |-> TRUE, out |-> createCreationAction(creationParameters)]
  /\ UNCHANGED <<currency, requestExtensions, extensionsState, lastCall,
                 createdCount, committedCount, creationParameters>>
  /\ UNCHANGED <<balanceVars, proxyVars, toolVars, configVars, paymentVars>>

NextCreate == CreateCreationAction

SpecCreate == InitCreate /\ [][NextCreate]_vars

----------------------------------------------------------------------------
(* Claims on applyActionToExtension (specification Spec) *)

CurrencyErrors ==
  {ErrNetworkNotSupported, ErrCurrencyTypeNotSupported, ErrCurrencyNotSupported}

\* The last call was a non-CREATE action on an id no CREATE was applied for.
NonCreateOnUncreated ==
  /\ lastCall.called
  /\ lastCall.action.action # CREATE
  /\ createdCount[lastCall.action.id] = 0

\* The result of the currency check of the last call.
LastGate ==
  checkSupportedCurrency(currency, ActionNetwork(lastCall.action))

\* The last call threw: no map returned, the caller's map as it was.
LastRejected ==
  /\ lastCall.out.err # NoError
  /\ lastCall.out.ret = NoMap
  /\ extensionsState = lastCall.before

\* C1 (as stated): every non-CREATE action on an extension id for which no
\* CREATE has been successfully applied fails with the ExtensionNotCreated
\* error and returns no extensions map.
C1_Original ==
  NonCreateOnUncreated =>
    /\ lastCall.out.err = ErrNotCreated
    /\ lastCall.out.ret = NoMap

\* C1 (amended): every non-CREATE action on an extension id for which no CREATE
\* has been successfully applied fails and returns no extensions map; the
\* error is ExtensionNotCreated whenever the request's currency passes the
\* supported-currency check, which runs first and otherwise throws its own
\* error.
C1_Amended ==
  NonCreateOnUncreated =>
    /\ LastRejected
    /\ LastGate = NoError => lastCall.out.err = ErrNotCreated
    /\ LastGate # NoError => lastCall.out.err = LastGate

C1_Witness ==
  /\ NonCreateOnUncreated
  /\ lastCall.action.action = ADD_FEE
  /\ lastCall.out.err = ErrNotCreated

\* C2: over any sequence of extension actions threaded through
\* applyActionToExtension, the map holds an entry for the extension id iff a
\* CREATE for that id has been successfully applied earlier, and that entry is
\* created exactly once: never created a second time or replaced by a later
\* CREATE.
C2_CreatedExactlyOnce ==
  \A id \in ActionIds :
    /\ id \in DOMAIN extensionsState <=> createdCount[id] >= 1
    /\ createdCount[id] <= 1

\* C3: a CREATE action for an extension id that already has a state fails
\* (with ExtensionAlreadyExists, once the currency check that precedes it has
\* passed) and the existing extension state is left as it was.
C3_CreateOnExistingFails ==
  ( /\ lastCall.called
    /\ lastCall.action.action = CREATE
    /\ lastCall.action.id \in DOMAIN lastCall.before ) =>
      /\ lastCall.out.err # NoError
      /\ LastGate = NoError => lastCall.out.err = ErrAlreadyCreated
      /\ lastCall.action.id \in DOMAIN extensionsState
      /\ extensionsState[lastCall.action.id] = lastCall.before[lastCall.action.id]

\* The invoicing currency is in the supported-currency table for the network
\* the last action declares ("mainnet" when it declares none).
LastNetwork ==
  IF lastCall.action.parameters.network = Undefined
    THEN "mainnet"
    ELSE lastCall.action.parameters.network
LastNetworkInTable == LastNetwork \in {"private", "rinkeby", "mainnet"}
LastTypeHasRow == currency.type \in {ISO4217, ERC20, ETH, BTC}
LastValueListed ==
  LET value == IF currency.type = ISO4217 THEN currency.value
                                          ELSE toLowerCase(currency.value)
      row == supportedCurrencies[LastNetwork][currency.type]
  IN \E i \in DOMAIN row : row[i] = value

C5_CopyOnWrite ==
  lastCall.called =>
    /\ lastCall.out.arg = lastCall.before
    /\ requestExtensions = lastCall.request
    /\ lastCall.out.err = NoError =>
         /\ DOMAIN lastCall.out.ret = DOMAIN lastCall.before \cup {lastCall.action.id}
         /\ \A i \in DOMAIN lastCall.before \ {lastCall.action.id} :
              lastCall.out.ret[i] = lastCall.before[i]
    /\ lastCall.out.err # NoError => LastRejected

C5_Witness ==
  /\ lastCall.called
  /\ lastCall.out.err = NoError
  /\ lastCall.action.action = ADD_REFUND_ADDRESS
  /\ CONTENT_DATA \in DOMAIN lastCall.before
  /\ lastCall.out.ret # lastCall.before
  /\ lastCall.out.ret[CONTENT_DATA] = lastCall.before[CONTENT_DATA]

KnownActions == {CREATE, ADD_PAYMENT_ADDRESS, ADD_REFUND_ADDRESS, ADD_FEE}

\* C8 (as stated): an action whose type is none of CREATE,
\* ADD_PAYMENT_ADDRESS, ADD_REFUND_ADDRESS, ADD_FEE fails with the UnknownAction
\* error and returns no extensions map.
C8_Original ==
  (lastCall.called /\ lastCall.action.action \notin KnownActions) =>
    /\ lastCall.out.err = ErrUnknownAction
    /\ lastCall.out.ret = NoMap

\* C8 (amended): an action whose type is none of the four known ones always
\* fails and returns no extensions map; the error is UnknownAction when the
\* currency check passes and the request already holds the extension, the
\* currency error when that check fails, and ExtensionNotCreated when the
\* check passes and the request does not hold the extension.
C8_Amended ==
  (lastCall.called /\ lastCall.action.action \notin KnownActions) =>
    /\ LastRejected
    /\ LastGate # NoError => lastCall.out.err = LastGate
    /\ (LastGate = NoError /\ lastCall.action.id \notin DOMAIN lastCall.request) =>
         lastCall.out.err = ErrNotCreated
    /\ (LastGate = NoError /\ lastCall.action.id \in DOMAIN lastCall.request) =>
         lastCall.out.err = ErrUnknownAction

C8_Witness ==
  /\ lastCall.called
  /\ lastCall.action.action \notin KnownActions
  /\ lastCall.out.err = ErrUnknownAction

\* The identities allowed to sign an action of the given type.
RequiredSigners(action) ==
  LET requestState == RequestState(currency, requestExtensions) IN
  CASE action = CREATE -> {requestState.creator, requestState.payee, requestState.payer}
    [] action = ADD_PAYMENT_ADDRESS -> {requestState.payee}
    [] action = ADD_REFUND_ADDRESS -> {requestState.payer}
    [] action = ADD_FEE -> {requestState.payee}
    [] OTHER -> {}

\* C9 (as stated): an extension action signed by an identity other than the
\* one its action type requires (creator, payee or payer of the request) is
\* always rejected, for every action type including CREATE, and the extensions
\* map is not changed by it.
C9_Original ==
  ( /\ lastCall.called
    /\ lastCall.action.action \in KnownActions
    /\ lastCall.signer \notin RequiredSigners(lastCall.action.action) ) =>
      LastRejected

\* C9 (amended): an ADD_PAYMENT_ADDRESS or ADD_FEE action not signed by the
\* payee and an ADD_REFUND_ADDRESS action not signed by the payer is always
\* rejected and the extensions map is not changed by it; CREATE is applied
\* whoever signs it (applyCreation is not given the signer).
C9_Amended ==
  ( /\ lastCall.called
    /\ lastCall.action.action \in {ADD_PAYMENT_ADDRESS, ADD_REFUND_ADDRESS, ADD_FEE}
    /\ lastCall.signer \notin RequiredSigners(lastCall.action.action) ) =>
      LastRejected

C9_Witness ==
  /\ lastCall.called
  /\ lastCall.action.action = ADD_PAYMENT_ADDRESS
  /\ lastCall.signer = Mallory
  /\ lastCall.out.err = ErrSignerNotPayee

\* The last call was a follow-up action that declares no network, on an
\* extension the request holds.
FollowUpOnCreated ==
  /\ lastCall.called
  /\ lastCall.action.action \in {ADD_PAYMENT_ADDRESS, ADD_REFUND_ADDRESS, ADD_FEE}
  /\ lastCall.action.parameters.network = Undefined
  /\ lastCall.action.id \in DOMAIN lastCall.request

\* C26: for an extension created with network N (private, rinkeby or
\* mainnet) on a request whose currency is supported on N, a later
\* ADD_PAYMENT_ADDRESS, ADD_REFUND_ADDRESS or ADD_FEE action passes the
\* currency-support check.
C26_FollowUpCheckedOnCreationNetwork ==
  FollowUpOnCreated =>
    LET network == lastCall.request[lastCall.action.id].values.network IN
    (/\ network \in {"private", "rinkeby", "mainnet"}
     /\ checkSupportedCurrency(currency, network) = NoError)
      => lastCall.out.err \notin CurrencyErrors

\* C27: an extension state created by applyActionToExtension from a CREATE
\* action has a values.network that is a key of the supported-currency table
\* and only accepted tokens that are, lower-cased, supported ERC20 of that
\* network.
C27_CreatedStateMeetsCreationConstraints ==
  (lastCall.called /\ lastCall.action.action = CREATE /\ lastCall.out.err = NoError) =>
    LET values == lastCall.out.ret[lastCall.action.id].values IN
    /\ values.network \in DOMAIN supportedCurrencies
    /\ \A i \in 1..Len(values.acceptedTokens) :
         Includes(supportedCurrencies[values.network][ERC20],
                  toLowerCase(values.acceptedTokens[i]))

----------------------------------------------------------------------------
(* Claims on createCreationAction (specification SpecCreate) *)

\* The entry at position i is not (lower-cased) a supported ERC20 of the
\* declared network.
UnsupportedAt(i) ==
  LET row == supportedCurrencies[creationParameters.network][ERC20] IN
  \A k \in DOMAIN row : row[k] # toLowerCase(creationParameters.acceptedTokens[i])

\* The declared network has a supported-ERC20 list and some entry is not in it.
SomeTokenUnsupported ==
  /\ creationResult.called
  /\ creationParameters.network \in {"private", "rinkeby", "mainnet"}
  /\ \E i \in DOMAIN creationParameters.acceptedTokens : UnsupportedAt(i)

NoActionProduced ==
  /\ creationResult.out.err.msg # NoError
  /\ "action" \notin DOMAIN creationResult.out
  /\ ~creationResult.out.reachedSuper

\* C6 (as stated): creating with an acceptedTokens list in which any entry
\* (compared lower-cased) is absent from the supported-ERC20 list of the
\* declared network fails with the error naming the address and the network,
\* for every such address and every position; no creation action is produced.
C6_Original ==
  SomeTokenUnsupported =>
    /\ NoActionProduced
    /\ creationResult.out.err.msg = ErrTokenNotSupported
    /\ creationResult.out.err.network = creationParameters.network
    /\ \E i \in DOMAIN creationParameters.acceptedTokens :
         UnsupportedAt(i) /\ creationResult.out.err.address = creationParameters.acceptedTokens[i]

\* C6 (amended): such a creation always fails and produces no creation action;
\* when every entry is a syntactically valid address the error names the first
\* unsupported address of the list and the network, and when some entry is not
\* a valid address the invalid-address error is thrown instead.
C6_Amended ==
  SomeTokenUnsupported =>
    /\ NoActionProduced
    /\ (\A i \in DOMAIN creationParameters.acceptedTokens :
          isValidAddress(creationParameters.acceptedTokens[i])) =>
         /\ creationResult.out.err.msg = ErrTokenNotSupported
         /\ creationResult.out.err.network = creationParameters.network
         /\ \E i \in DOMAIN creationParameters.acceptedTokens :
              /\ UnsupportedAt(i)
              /\ \A j \in 1..(i - 1) : ~UnsupportedAt(j)
              /\ creationResult.out.err.address = creationParameters.acceptedTokens[i]
    /\ (\E i \in DOMAIN creationParameters.acceptedTokens :
          ~isValidAddress(creationParameters.acceptedTokens[i])) =>
         creationResult.out.err.msg = ErrAcceptedTokensInvalid

\* The unsupported address stands second, after a supported one.
C6_Witness ==
  /\ SomeTokenUnsupported
  /\ Len(creationParameters.acceptedTokens) = 2
  /\ ~UnsupportedAt(1)
  /\ creationResult.out.err.msg = ErrTokenNotSupported
  /\ creationResult.out.err.address = creationParameters.acceptedTokens[2]

\* What createCreationAction requires before it calls the base class.
CreationRequirements ==
  /\ Len(creationParameters.acceptedTokens) > 0
  /\ \A i \in DOMAIN creationParameters.acceptedTokens :
       isValidAddress(creationParameters.acceptedTokens[i])
  /\ creationParameters.network # Undefined
  /\ creationParameters.network \in {"private", "rinkeby", "mainnet"}

\* C7: createCreationAction returns a creation action only when acceptedTokens
\* is present and non-empty, every accepted token is a valid address, network
\* is given and is a key of the supported-currency table; otherwise it throws
\* and never reaches the base fee-proxy createCreationAction.
C7_CreationRequirements ==
  creationResult.called =>
    /\ "action" \in DOMAIN creationResult.out => CreationRequirements
    /\ creationResult.out.reachedSuper => CreationRequirements
    /\ ~CreationRequirements => creationResult.out.err.msg # NoError

C7_Witness ==
  /\ creationResult.called
  /\ "action" \in DOMAIN creationResult.out
  /\ creationResult.out.err.msg = NoError
  /\ creationResult.out.reachedSuper

----------------------------------------------------------------------------
(* Part 2: PaymentNetworkERC20AddressBased.getBalance (address-based.ts) *)

\* Each of the two event streams of the ledger holds at most MaxEvents events.
MaxEvents == 2

supportedNetworksWithKovan == <<"mainnet", "rinkeby", "private", "kovan">>
supportedNetworks == <<"mainnet", "rinkeby", "private">>
PAYMENT_NETWORK_ERC20_ADDRESS_BASED == "pn-erc20-address-based"
PAYMENT == "payment"
REFUND == "refund"

ErrPaymentNetworkNotSupported ==
  "Payment network not supported by ERC20 payment detection"

\* An event that carries no timestamp field.
NoTimestamp == -1

\* Decimal strings are sequences of characters.
DecimalDigits == <<"0", "1", "2", "3", "4", "5", "6", "7", "8", "9">>

RECURSIVE ParseDigits(_)
ParseDigits(str) ==
  IF str = << >> THEN 0
  ELSE ParseDigits(SubSeq(str, 1, Len(str) - 1)) * 10
         + (CHOOSE d \in 0..9 : DecimalDigits[d + 1] = str[Len(str)])

\* new bigNumber(str): base-10 parse, with an optional leading minus sign.
bigNumber(str) ==
  IF str # << >> /\ Head(str) = "-" THEN 0 - ParseDigits(Tail(str))
  ELSE ParseDigits(str)

RECURSIVE DigitsOf(_)
DigitsOf(n) ==
  IF n < 10 THEN <<DecimalDigits[n + 1]>>
  ELSE Append(DigitsOf(n \div 10), DecimalDigits[(n % 10) + 1])

\* BN.prototype.toString(): base-10 rendering.
toString(n) == IF n < 0 THEN <<"-">> \o DigitsOf(0 - n) ELSE DigitsOf(n)

\* new Erc20InfoRetriever(token, address, eventName, network).getTransferEvents()
getTransferEvents(tokenContractAddress, address, eventName, network) ==
  transferEvents[eventName]

\* events.reduce((acc, event) => acc.add(new bigNumber(event.amount)), acc)
RECURSIVE Reduce(_, _)
Reduce(events, acc) ==
  IF events = << >> THEN acc
  ELSE Reduce(Tail(events), acc + bigNumber(Head(events).amount))

extractBalanceAndEvents(address, eventName, network, tokenContractAddress) ==
  LET events == getTransferEvents(tokenContractAddress, address, eventName, network)
  IN [balance |-> toString(Reduce(events, 0)), events |-> events]

\* { balance: '0', events: [] }
NoBalance == [balance |-> <<"0">>, events |-> << >>]

\* new bigNumber(balance || 0)
BalanceOrZero(balance) == IF balance = << >> THEN 0 ELSE bigNumber(balance)

\* The comparator handed to Array.prototype.sort:
\* (a.timestamp || 0) - (b.timestamp || 0), a missing timestamp counting as 0.
CompareEvents(a, b) ==
  (IF a.timestamp = NoTimestamp THEN 0 ELSE a.timestamp)
    - (IF b.timestamp = NoTimestamp THEN 0 ELSE b.timestamp)

\* Array.prototype.sort is stable: an element goes after every element that
\* does not compare greater than it.
RECURSIVE InsertBeforeEqual(_, _)
InsertBeforeEqual(sorted, e) ==
  IF sorted = << >> THEN <<e>>
  ELSE IF CompareEvents(sorted[Len(sorted)], e) < 0 THEN Append(sorted, e)
  ELSE Append(InsertBeforeEqual(SubSeq(sorted, 1, Len(sorted) - 1), e),
              sorted[Len(sorted)])

RECURSIVE Insert(_, _)
Insert(sorted, e) ==
  IF sorted = << >> THEN <<e>>
  ELSE IF CompareEvents(sorted[Len(sorted)], e) <= 0 THEN Append(sorted, e)
  ELSE Append(Insert(SubSeq(sorted, 1, Len(sorted) - 1), e), sorted[Len(sorted)])

RECURSIVE sort(_)
sort(events) ==
  IF events = << >> THEN << >>
  ELSE Insert(sort(SubSeq(events, 1, Len(events) - 1)), events[Len(events)])

\* payments.balance - refunds.balance
SubClamped(a, b) == IF a < b THEN 0 ELSE a - b
Sub(a, b) == a - b

\* Inputs of getBalance.
AddressBasedRequest(network, paymentAddress, refundAddress) ==
  [ currency |-> [type |-> ERC20, value |-> TokDai, network |-> network],
    extensions |->
      [i \in {PAYMENT_NETWORK_ERC20_ADDRESS_BASED} |->
         [values |-> [paymentAddress |-> paymentAddress,
                      refundAddress |-> refundAddress]]] ]

EventUniverse(name) ==
  { [name |-> name, amount |-> <<"1", "0", "0">>, timestamp |-> 10],
    [name |-> name, amount |-> <<"5", "0">>, timestamp |-> 0],
    [name |-> name, amount |-> <<"3", "0">>, timestamp |-> 10],
    [name |-> name, amount |-> <<"3", "0">>, timestamp |-> NoTimestamp] }

EventLists(name) == UNION { [1..n -> EventUniverse(name)] : n \in 0..MaxEvents }

InitBalance ==
  /\ \E network \in {Undefined, "rinkeby", "kovan"}, refundAddress \in {Undefined, "0x0000000000000000000000000000000000000003"} :
       request = AddressBasedRequest(network, PayAddress, refundAddress)
  /\ requestGiven = request
  /\ \E paymentEvents \in EventLists(PAYMENT), refundEvents \in EventLists(REFUND) :
       transferEvents = [n \in {PAYMENT, REFUND} |->
                           IF n = PAYMENT THEN paymentEvents ELSE refundEvents]
  /\ queries = << >>
  /\ pc = "start"
  /\ payments = NoBalance
  /\ refunds = NoBalance
  /\ balanceResult = [called |-> FALSE]
  /\ ExtensionIdle /\ ProxyIdle /\ ToolsIdle /\ ConfigIdle /\ PaymentIdle

\* Lines 73-84: default the network on the request, reject unsupported ones.
GetBalanceCheckNetwork ==
  /\ pc = "start"
  /\ LET defaulted == IF request.currency.network = Undefined
                        THEN [request EXCEPT !.currency.network = "mainnet"]
                        ELSE request
     IN /\ request' = defaulted
        /\ IF ~Includes(supportedNetworks, defaulted.currency.network)
             THEN /\ balanceResult' = [called |-> TRUE,
                                       err |-> ErrPaymentNetworkNotSupported,
                                       network |-> defaulted.currency.network]
                  /\ pc' = "done"
             ELSE /\ balanceResult' = balanceResult
                  /\ pc' = "payments"
  /\ UNCHANGED <<requestGiven, transferEvents, queries, payments, refunds>>
  /\ UNCHANGED <<extensionVars, proxyVars, toolVars, configVars, paymentVars>>

\* Lines 85-100: the payment events of the payment address.
GetBalancePayments ==
  /\ pc = "payments"
  /\ LET paymentAddress ==
           request.extensions[PAYMENT_NETWORK_ERC20_ADDRESS_BASED].values.paymentAddress
     IN IF paymentAddress # Undefined
          THEN /\ queries' = Append(queries,
                     [tokenContractAddress |-> request.currency.value,
                      address |-> paymentAddress, eventName |-> PAYMENT,
                      network |-> request.currency.network])
               /\ payments' = extractBalanceAndEvents(paymentAddress, PAYMENT,
                                request.currency.network, request.currency.value)
          ELSE UNCHANGED <<queries, payments>>
  /\ pc' = "refunds"
  /\ UNCHANGED <<request, requestGiven, transferEvents, refunds, balanceResult>>
  /\ UNCHANGED <<extensionVars, proxyVars, toolVars, configVars, paymentVars>>

\* Lines 88-90, 102-110: the refund events of the refund address.
GetBalanceRefunds ==
  /\ pc = "refunds"
  /\ LET refundAddress ==
           request.extensions[PAYMENT_NETWORK_ERC20_ADDRESS_BASED].values.refundAddress
     IN IF refundAddress # Undefined
          THEN /\ queries' = Append(queries,
                     [tokenContractAddress |-> request.currency.value,
                      address |-> refundAddress, eventName |-> REFUND,
                      network |-> request.currency.network])
               /\ refunds' = extractBalanceAndEvents(refundAddress, REFUND,
                               request.currency.network, request.currency.value)
          ELSE UNCHANGED <<queries, refunds>>
  /\ pc' = "return"
  /\ UNCHANGED <<request, requestGiven, transferEvents, payments, balanceResult>>
  /\ UNCHANGED <<extensionVars, proxyVars, toolVars, configVars, paymentVars>>

\* Lines 112-123: the balance and the merged, sorted events.
GetBalanceReturn ==
  /\ pc = "return"
  /\ balanceResult' =
       [ called |-> TRUE, err |-> NoError,
         balance |-> toString(Sub(BalanceOrZero(payments.balance),
                                  BalanceOrZero(refunds.balance))),
         events |-> sort(payments.events \o refunds.events) ]
  /\ pc' = "done"
  /\ UNCHANGED <<request, requestGiven, transferEvents, queries, payments, refunds>>
  /\ UNCHANGED <<extensionVars, proxyVars, toolVars, configVars, paymentVars>>

NextBalance ==
  \/ GetBalanceCheckNetwork
  \/ GetBalancePayments
  \/ GetBalanceRefunds
  \/ GetBalanceReturn

SpecBalance == InitBalance /\ [][NextBalance]_vars

----------------------------------------------------------------------------
(* Claims about getBalance (SpecBalance) *)

\* The getBalance call has returned a balance.
BalanceReturned == pc = "done" /\ balanceResult.called /\ balanceResult.err = NoError

\* The events getBalance retrieves for an event name: those of the ledger when
\* the request carries the corresponding address, none otherwise.
RetrievedEvents(name) ==
  LET values == requestGiven.extensions[PAYMENT_NETWORK_ERC20_ADDRESS_BASED].values
      address == IF name = PAYMENT THEN values.paymentAddress ELSE values.refundAddress
  IN IF address = Undefined THEN << >> ELSE transferEvents[name]

\* The number an amount of the ledger denotes.
AmountValue(amount) ==
  CASE amount = <<"1", "0", "0">> -> 100
    [] amount = <<"5", "0">> -> 50
    [] amount = <<"3", "0">> -> 30

RECURSIVE SumOfAmounts(_)
SumOfAmounts(events) ==
  IF events = << >> THEN 0
  ELSE AmountValue(Head(events).amount) + SumOfAmounts(Tail(events))

ExpectedBalance ==
  SumOfAmounts(RetrievedEvents(PAYMENT)) - SumOfAmounts(RetrievedEvents(REFUND))

\* A decimal string in canonical form: digits only, an optional leading minus
\* sign, no leading zero.
CanonicalDecimal(str) ==
  LET digits == IF str # << >> /\ Head(str) = "-" THEN Tail(str) ELSE str
  IN /\ digits # << >>
     /\ \A i \in 1..Len(digits) : \E d \in 1..10 : DecimalDigits[d] = digits[i]
     /\ Len(digits) > 1 => Head(digits) # "0"

\* C11: the balance getBalance returns is the sum of the amounts of the
\* retrieved PAYMENT events minus the sum of the amounts of the retrieved
\* REFUND events, exact and possibly negative, and every retrieved event is
\* returned.
C11_BalanceIsPaymentsMinusRefunds ==
  BalanceReturned =>
    /\ CanonicalDecimal(balanceResult.balance)
    /\ bigNumber(balanceResult.balance) = ExpectedBalance
    /\ ExpectedBalance < 0 => Head(balanceResult.balance) = "-"
    /\ Len(balanceResult.events) =
         Len(RetrievedEvents(PAYMENT)) + Len(RetrievedEvents(REFUND))

\* Payments [100, 50] and refunds [30] give balance 120 and 3 events.
C11_Witness ==
  /\ BalanceReturned
  /\ Len(transferEvents[PAYMENT]) = 2
  /\ transferEvents[PAYMENT][1].amount = <<"1", "0", "0">>
  /\ transferEvents[PAYMENT][2].amount = <<"5", "0">>
  /\ Len(transferEvents[REFUND]) = 1
  /\ transferEvents[REFUND][1].amount = <<"3", "0">>
  /\ balanceResult.balance = <<"1", "2", "0">>
  /\ Len(balanceResult.events) = 3

\* The retrieved payment events followed by the retrieved refund events.
MergedEvents == RetrievedEvents(PAYMENT) \o RetrievedEvents(REFUND)

SortKey(event) == IF event.timestamp = NoTimestamp THEN 0 ELSE event.timestamp

\* The place of the i-th merged event in the ascending stable order.
StablePosition(i) ==
  1 + Cardinality({ j \in 1..Len(MergedEvents) :
                      \/ SortKey(MergedEvents[j]) < SortKey(MergedEvents[i])
                      \/ /\ SortKey(MergedEvents[j]) = SortKey(MergedEvents[i])
                         /\ j < i })

\* C12: the returned events are a permutation of the retrieved payment events
\* followed by the retrieved refund events, in ascending timestamp order (a
\* missing timestamp counts as 0), events of equal timestamp keeping their
\* order in that concatenation.
C12_EventsStablySorted ==
  BalanceReturned =>
    /\ Len(balanceResult.events) = Len(MergedEvents)
    /\ \A i \in 1..Len(MergedEvents) :
         balanceResult.events[StablePosition(i)] = MergedEvents[i]

\* A refund and a payment share a timestamp, a missing timestamp ties with 0,
\* and the sort had to move events.
C12_Witness ==
  /\ BalanceReturned
  /\ balanceResult.events # MergedEvents
  /\ \E i \in 1..Len(RetrievedEvents(PAYMENT)), j \in 1..Len(RetrievedEvents(REFUND)) :
       /\ RetrievedEvents(PAYMENT)[i].timestamp = 0
       /\ RetrievedEvents(REFUND)[j].timestamp = NoTimestamp
  /\ \E i \in 1..Len(balanceResult.events), j \in 1..Len(balanceResult.events) :
       /\ i < j
       /\ SortKey(balanceResult.events[i]) = SortKey(balanceResult.events[j])
       /\ balanceResult.events[i].name = PAYMENT
       /\ balanceResult.events[j].name = REFUND

BalanceRejected ==
  /\ pc = "done"
  /\ balanceResult.called
  /\ balanceResult.err = ErrPaymentNetworkNotSupported

\* C13: a request whose currency network is none of mainnet, rinkeby, private
\* is rejected with the unsupported-network error and no getTransferEvents
\* call is ever issued for it; a request without currency network is not
\* rejected and is queried on mainnet.
C13_UnsupportedNetworkFailsBeforeQuery ==
  /\ BalanceRejected => queries = << >>
  /\ (requestGiven.currency.network \notin {Undefined, "mainnet", "rinkeby", "private"}
      /\ pc # "start") => (BalanceRejected /\ queries = << >>)
  /\ (requestGiven.currency.network = Undefined /\ pc # "start") =>
       /\ ~BalanceRejected
       /\ \A i \in 1..Len(queries) : queries[i].network = "mainnet"

C13_Witness ==
  /\ BalanceRejected
  /\ requestGiven.currency.network = "kovan"
  /\ transferEvents[PAYMENT] # << >>

\* C14: the request object handed to getBalance is unchanged by the call.
C14_RequestUnchanged == request = requestGiven

----------------------------------------------------------------------------
(* Part 3: ProxyChainlinkConversionPath (Solidity contract) *)

\* At most MaxPayments payments succeed in a behaviour (caps the event log).
MaxPayments == 2

maxTimestampDeltaAcceptable == 600

AddressZero == "0x0000000000000000000000000000000000000000"
EurHash == "0x17B4158805772Ced11225E77339F90BeB5aAE968"
UsdHash == "0x775EB53d00DD0Acd3EC1696472105d579B9b386b"

ErrEthNotSupported == "ETH not supported yet"
ErrRateOutdated == "aggregator rate is outdated"
ErrOverUserLimit == "Amount to pay is over the user limit"

\* uint256 is scaled to UintBits bits: the largest value is MaxUint.
UintBits == 29
MaxUint == 2^UintBits - 1

\* SafeMath on uint256 (line 73): add and mul revert when the result does not
\* fit, sub reverts when the subtrahend is the larger and div when the
\* divisor is 0.
AddOverflows(a, b) == a > MaxUint - b
MulOverflows(a, b) == a # 0 /\ b > MaxUint \div a

\* chainlinkConversionPath.getRate(_path): (rate, oldestTimestampRate, decimals)
getRate(path) == rateAnswer

\* require(block.timestamp.sub(oldestTimestampRate) <= maxTimestampDeltaAcceptable)
RateIsFreshStrict(delta) == delta < maxTimestampDeltaAcceptable
RateIsFresh(delta) == delta <= maxTimestampDeltaAcceptable

\* _requestAmount.mul(rate).div(decimals), once mul and div are known not to
\* revert.
ConvertDividingFirst(amount, rate, decimals) == amount * (rate \div decimals)
Convert(amount, rate, decimals) == (amount * rate) \div decimals

\* getConversions(_path, _requestAmount, _feesRequestAmount)
getConversions(path, requestAmount, feesRequestAmount) ==
  LET answer == getRate(path) IN
  IF ~(answer.oldestTimestampRate <= blockTimestamp)
    THEN [err |-> "SafeMath: subtraction overflow"]
  ELSE IF ~RateIsFresh(blockTimestamp - answer.oldestTimestampRate)
    THEN [err |-> ErrRateOutdated]
  ELSE IF MulOverflows(requestAmount, answer.rate)
    THEN [err |-> "SafeMath: multiplication overflow"]
  ELSE IF ~(answer.decimals > 0)
    THEN [err |-> "SafeMath: division by zero"]
  ELSE IF MulOverflows(feesRequestAmount, answer.rate)
    THEN [err |-> "SafeMath: multiplication overflow"]
  ELSE [err |-> NoError,
        amountToPay |-> Convert(requestAmount, answer.rate, answer.decimals),
        amountToPayInFees |-> Convert(feesRequestAmount, answer.rate, answer.decimals)]

\* require(amountToPay.add(amountToPayInFees) <= _maxToSpend)
WithinUserLimitOrOneOver(total, maxToSpend) == total <= maxToSpend + 1
WithinUserLimit(total, maxToSpend) == total <= maxToSpend

\* transferFromWithReferenceAndFee: the error of the first failing require, or
\* the transfer made through the payment proxy and the event emitted.
\* `status` is what paymentProxy.delegatecall returns.
transferFromWithReferenceAndFee(to, requestAmount, path, paymentReference, feesRequestAmount, feesTo, maxToSpend, status) ==
  IF path[Len(path)] = AddressZero THEN [err |-> ErrEthNotSupported]
  ELSE
    LET conversions == getConversions(path, requestAmount, feesRequestAmount) IN
    IF conversions.err # NoError THEN [err |-> conversions.err]
    ELSE IF AddOverflows(conversions.amountToPay, conversions.amountToPayInFees)
      THEN [err |-> "SafeMath: addition overflow"]
    ELSE IF ~WithinUserLimit(conversions.amountToPay + conversions.amountToPayInFees,
                             maxToSpend)
      THEN [err |-> ErrOverUserLimit]
    ELSE IF ~status THEN [err |-> "transferFromWithReferenceAndFee failed"]
    ELSE [err |-> NoError,
          transfer |-> [paymentCurrency |-> path[Len(path)], to |-> to,
                        amount |-> conversions.amountToPay,
                        paymentReference |-> paymentReference,
                        feeAmount |-> conversions.amountToPayInFees,
                        feesTo |-> feesTo],
          event |-> [paymentCurrency |-> path[Len(path)], to |-> to,
                     requestAmount |-> requestAmount, requestCurrency |-> path[1],
                     paymentReference |-> paymentReference,
                     feesRequestAmount |-> feesRequestAmount, feesTo |-> feesTo]]

InitProxy ==
  /\ blockTimestamp = 1000
  /\ \E oldest \in {1000, 2000} :
       rateAnswer = [rate |-> 2, oldestTimestampRate |-> oldest, decimals |-> 1]
  /\ tokenTransfers = << >>
  /\ proxyEvents = << >>
  /\ lastTx = [called |-> FALSE]
  /\ ExtensionIdle /\ BalanceIdle /\ ToolsIdle /\ ConfigIdle /\ PaymentIdle

\* One transaction calling the proxy; a revert leaves the chain as it was.
TransferFromWithReferenceAndFee ==
  \E path \in {<<EurHash, UsdHash, TokDai>>, <<EurHash, AddressZero>>},
     amounts \in {<<100, 2>>, <<MaxUint \div 3, MaxUint \div 3>>},
     maxToSpend \in {203, 204, MaxUint}, status \in BOOLEAN :
    LET requestAmount == amounts[1]
        feesRequestAmount == amounts[2]
        out == transferFromWithReferenceAndFee(PayAddress, requestAmount, path,
                                              "0xaaaa", feesRequestAmount,
                                              FeeAddress, maxToSpend, status)
    IN
    /\ out.err = NoError => Len(proxyEvents) < MaxPayments
    /\ lastTx' = [called |-> TRUE, path |-> path, now |-> blockTimestamp,
                  oldestTimestampRate |-> rateAnswer.oldestTimestampRate,
                  rate |-> rateAnswer.rate, decimals |-> rateAnswer.decimals,
                  requestAmount |-> requestAmount,
                  feesRequestAmount |-> feesRequestAmount,
                  maxToSpend |-> maxToSpend, status |-> status,
                  transfersBefore |-> tokenTransfers, eventsBefore |-> proxyEvents,
                  err |-> out.err]
    /\ tokenTransfers' = IF out.err = NoError
                           THEN Append(tokenTransfers, out.transfer)
                           ELSE tokenTransfers
    /\ proxyEvents' = IF out.err = NoError
                        THEN Append(proxyEvents, out.event) ELSE proxyEvents
    /\ UNCHANGED <<blockTimestamp, rateAnswer>>
    /\ UNCHANGED <<extensionVars, balanceVars, toolVars, configVars, paymentVars>>

\* Time passes on the chain.
MineBlock ==
  /\ \E later \in {1599, 1600, 1601} :
       later > blockTimestamp /\ blockTimestamp' = later
  /\ UNCHANGED <<rateAnswer, tokenTransfers, proxyEvents, lastTx>>
  /\ UNCHANGED <<extensionVars, balanceVars, toolVars, configVars, paymentVars>>

\* The aggregators of the path publish a rate in the current block.
UpdateRate ==
  /\ rateAnswer.oldestTimestampRate # blockTimestamp
  /\ \E answer \in {<<2, 1>>, <<1188118, 1000>>} :
       rateAnswer' = [rate |-> answer[1], oldestTimestampRate |-> blockTimestamp,
                      decimals |-> answer[2]]
  /\ UNCHANGED <<blockTimestamp, tokenTransfers, proxyEvents, lastTx>>
  /\ UNCHANGED <<extensionVars, balanceVars, toolVars, configVars, paymentVars>>

NextProxy ==
  \/ TransferFromWithReferenceAndFee
  \/ MineBlock
  \/ UpdateRate

SpecProxy == InitProxy /\ [][NextProxy]_vars

----------------------------------------------------------------------------
(* Claims about the conversion proxy (SpecProxy) *)

\* The last transaction got as far as getConversions.
ReachedGetConversions == lastTx.called /\ lastTx.path[Len(lastTx.path)] # AddressZero

RateAge == lastTx.now - lastTx.oldestTimestampRate

NothingTransferred ==
  /\ tokenTransfers = lastTx.transfersBefore
  /\ proxyEvents = lastTx.eventsBefore

\* C15: a conversion payment succeeds only if block.timestamp minus the oldest
\* rate timestamp of the path is at most 600 seconds; with a rate older than
\* that (601 seconds) it fails with the outdated-rate error, transfers nothing
\* and emits no event; with a rate 599 or exactly 600 seconds old the
\* freshness check passes.
C15_FreshnessGate ==
  /\ (lastTx.called /\ lastTx.err = NoError) => (RateAge >= 0 /\ RateAge <= 600)
  /\ (lastTx.called /\ lastTx.err # NoError) => NothingTransferred
  /\ (ReachedGetConversions /\ RateAge > 600) => lastTx.err = ErrRateOutdated
  /\ (ReachedGetConversions /\ RateAge >= 0 /\ RateAge <= 600) =>
       lastTx.err # ErrRateOutdated

\* A payment succeeded while the rate was fresh and the next one, 601 seconds
\* after the rate, is refused.
C15_Witness ==
  /\ ReachedGetConversions
  /\ RateAge = 601
  /\ lastTx.err = ErrRateOutdated
  /\ Len(proxyEvents) > 0
  /\ NothingTransferred

\* The last transaction got its two converted amounts: the rate was fresh and
\* neither product left uint256.
ConversionsComputed ==
  /\ ReachedGetConversions
  /\ RateAge >= 0 /\ RateAge <= 600
  /\ lastTx.requestAmount <= MaxUint \div lastTx.rate
  /\ lastTx.feesRequestAmount <= MaxUint \div lastTx.rate

\* The amounts as the claims give them, in unbounded arithmetic.
ConvertedAmount == (lastTx.requestAmount * lastTx.rate) \div lastTx.decimals
ConvertedFee == (lastTx.feesRequestAmount * lastTx.rate) \div lastTx.decimals

\* What the last successful transaction moved out of the payer's account.
LastTransfer == tokenTransfers[Len(tokenTransfers)]
Debited == LastTransfer.amount + LastTransfer.feeAmount

\* C22 as stated: every successful call moved at most _maxToSpend, and
\* whenever the converted amount plus the converted fee exceeds _maxToSpend
\* the call reverts with the over-the-limit error and nothing is transferred.
C22_Original ==
  /\ (lastTx.called /\ lastTx.err = NoError) => Debited <= lastTx.maxToSpend
  /\ (ConversionsComputed /\ ConvertedAmount + ConvertedFee > lastTx.maxToSpend) =>
       (lastTx.err = ErrOverUserLimit /\ NothingTransferred)

\* C22 amended: every successful call moved at most _maxToSpend; whenever the
\* converted amount plus the converted fee exceeds _maxToSpend the call
\* reverts, whatever the payment proxy would have answered, and nothing is
\* transferred: with the over-the-limit error when the sum fits uint256, with
\* SafeMath's addition error when it does not.
C22_Amended ==
  /\ (lastTx.called /\ lastTx.err = NoError) => Debited <= lastTx.maxToSpend
  /\ (ConversionsComputed /\ ConvertedAmount + ConvertedFee > lastTx.maxToSpend) =>
       /\ NothingTransferred
       /\ lastTx.err = IF ConvertedAmount + ConvertedFee <= MaxUint
                         THEN ErrOverUserLimit
                         ELSE "SafeMath: addition overflow"

\* After a payment that spent exactly the limit, one whose limit is one unit
\* short is refused although the payment proxy would have accepted it.
C22_Witness ==
  /\ ConversionsComputed
  /\ lastTx.status
  /\ ConvertedAmount + ConvertedFee = lastTx.maxToSpend + 1
  /\ lastTx.err = ErrOverUserLimit
  /\ Len(tokenTransfers) > 0
  /\ Debited = 204
  /\ proxyEvents[Len(proxyEvents)].requestAmount = 100

\* C23: a successful conversion payment moves, in the last currency of the
\* path, exactly floor(requestAmount * rate / decimals) to the payee and
\* floor(feesRequestAmount * rate / decimals) to the fee address, each amount
\* rounded down on its own: 1.00 plus a fee of 0.02 at a rate of 1.188118
\* debits 1.21187 tokens (118811 + 2376), not floor(1.02 * 1.188118).
C23_DebitIsConvertedAmounts ==
  (lastTx.called /\ lastTx.err = NoError) =>
    /\ tokenTransfers = Append(lastTx.transfersBefore, LastTransfer)
    /\ LastTransfer.paymentCurrency = lastTx.path[Len(lastTx.path)]
    /\ LastTransfer.amount = ConvertedAmount
    /\ LastTransfer.feeAmount = ConvertedFee
    /\ Debited = ConvertedAmount + ConvertedFee
    /\ (/\ lastTx.requestAmount = 100 /\ lastTx.feesRequestAmount = 2
        /\ lastTx.rate = 1188118 /\ lastTx.decimals = 1000) => Debited = 121187

C23_Witness ==
  /\ lastTx.called
  /\ lastTx.err = NoError
  /\ lastTx.rate = 1188118
  /\ lastTx.path = <<EurHash, UsdHash, TokDai>>
  /\ LastTransfer.paymentCurrency = TokDai
  /\ Debited = 121187
  /\ ((lastTx.requestAmount + lastTx.feesRequestAmount) * lastTx.rate)
        \div lastTx.decimals = 121188

----------------------------------------------------------------------------
(* Part 4: ChainlinkConversionPathTools (chainlinkConversionPathTools.ts) *)

\* provider.getLogs returns at most MaxLogs AggregatorUpdated logs.
MaxLogs == 3

\* Currency hashes as a log can spell them: the checksum form and the
\* lower-case form of the same address.
EurLower == "0x17b4158805772ced11225e77339f90beb5aae968"
UsdLower == "0x775eb53d00dd0acd3ec1696472105d579b9b386b"
DaiChecksum == "0x6B175474E89094C44Da98b954EedeAC495271d0F"
Aggregator1 == "0x0000000000000000000000000000000000000a01"
Aggregator2 == "0x0000000000000000000000000000000000000a02"

\* The decoding of an `address` argument of the ABI fragment: whatever the
\* letter case of the hexadecimal data, the address comes out in its one
\* checksum spelling (the zero address as forty zeros, which line 83 relies on).
getAddress(hex) ==
  CASE hex = EurLower -> EurHash
    [] hex = UsdLower -> UsdHash
    [] hex = TokDai -> DaiChecksum
    [] OTHER -> hex

AggregatorUpdated(input, output, aggregator) ==
  [_input |-> input, _output |-> output, _aggregator |-> aggregator]

\* parseLogArgs(interface.parseLog(log)): the arguments by name.
parseLogVerbatim(log) == log
parseLog(log) ==
  AggregatorUpdated(getAddress(log._input), getAddress(log._output),
                    getAddress(log._aggregator))

\* A JS Map: its entries in insertion order.
MapIndex(map, key) ==
  IF \E i \in 1..Len(map) : map[i].key = key
    THEN CHOOSE i \in 1..Len(map) : map[i].key = key
    ELSE 0

MapHas(map, key) == MapIndex(map, key) # 0

MapGet(map, key) == map[MapIndex(map, key)].value

\* Map.prototype.set: an existing key keeps its place, a new one goes last.
MapSet(map, key, value) ==
  LET index == MapIndex(map, key) IN
  IF index # 0
    THEN [map EXCEPT ![index].value = value]
    ELSE Append(map, [key |-> key, value |-> value])

\* Map.prototype.delete
MapDelete(map, key) ==
  LET index == MapIndex(map, key) IN
  IF index # 0
    THEN SubSeq(map, 1, index - 1) \o SubSeq(map, index + 1, Len(map))
    ELSE map

\* aggregators.get(args._input)?.delete(args._output)
DeleteWholeInput(aggregatorsMap, input, output) == MapDelete(aggregatorsMap, input)
DeleteEdge(aggregatorsMap, input, output) ==
  IF MapHas(aggregatorsMap, input)
    THEN MapSet(aggregatorsMap, input, MapDelete(MapGet(aggregatorsMap, input), output))
    ELSE aggregatorsMap

\* if (aggregators.get(args._input)?.size === 0) aggregators.delete(args._input)
PruneNever(aggregatorsMap, input) == aggregatorsMap
PruneInput(aggregatorsMap, input) ==
  IF MapHas(aggregatorsMap, input) /\ Len(MapGet(aggregatorsMap, input)) = 0
    THEN MapDelete(aggregatorsMap, input)
    ELSE aggregatorsMap

\* The reducer of getAggregators (lines 78-100).
Reducer(aggregatorsMap, log) ==
  LET args == parseLog(log) IN
  IF args._aggregator = AddressZero
    THEN PruneInput(DeleteEdge(aggregatorsMap, args._input, args._output), args._input)
  ELSE IF ~MapHas(aggregatorsMap, args._input)
    THEN MapSet(aggregatorsMap, args._input,
                MapSet(<< >>, args._output, args._aggregator))
  ELSE MapSet(aggregatorsMap, args._input,
              MapSet(MapGet(aggregatorsMap, args._input), args._output, args._aggregator))

RECURSIVE ReduceLogs(_, _)
ReduceLogs(logList, aggregatorsMap) ==
  IF logList = << >> THEN aggregatorsMap
  ELSE ReduceLogs(Tail(logList), Reducer(aggregatorsMap, Head(logList)))

toLocaleLowerCaseVerbatim(s) == s
toLocaleLowerCase(s) == toLowerCase(s)

\* elemL1.forEach: aggregatorsAsObject[keyL1][keyL2.toLocaleLowerCase()] = aggregator
RECURSIVE ForEachL2(_, _)
ForEachL2(object, elemL1) ==
  IF elemL1 = << >> THEN object
  ELSE ForEachL2(SetEntry(object, toLocaleLowerCase(Head(elemL1).key),
                          Head(elemL1).value),
                 Tail(elemL1))

\* aggregatorsMaps.forEach: aggregatorsAsObject[keyL1.toLocaleLowerCase()] = {}
\* and then its outputs.
RECURSIVE ForEachL1(_, _)
ForEachL1(object, aggregatorsMap) ==
  IF aggregatorsMap = << >> THEN object
  ELSE ForEachL1(SetEntry(object, toLocaleLowerCase(Head(aggregatorsMap).key),
                          ForEachL2(NoMap, Head(aggregatorsMap).value)),
                 Tail(aggregatorsMap))

\* getAggregators(): the folded Map and the object returned.
getAggregators(logList) ==
  LET aggregatorsMaps == ReduceLogs(logList, << >>)
  IN [aggregatorsMaps |-> aggregatorsMaps,
      aggregatorsAsObject |-> ForEachL1(NoMap, aggregatorsMaps)]

\* listAggregators, lines 132-134 and 137-139: a currency seen for the first
\* time gets an empty set of neighbours.
EnsureNode(nodes, ccy) ==
  IF ccy \in DOMAIN nodes THEN nodes ELSE SetEntry(nodes, ccy, NoMap)

\* Lines 136-141: the pair and its reverse, each of weight 1.
AddEdgeOneWay(nodes, ccyIn, ccyOut) ==
  LET ensured == EnsureNode(EnsureNode(nodes, ccyIn), ccyOut)
  IN SetEntry(ensured, ccyIn, SetEntry(ensured[ccyIn], ccyOut, 1))
AddEdge(nodes, ccyIn, ccyOut) ==
  LET ensured == EnsureNode(EnsureNode(nodes, ccyIn), ccyOut)
      forward == SetEntry(ensured, ccyIn, SetEntry(ensured[ccyIn], ccyOut, 1))
  IN SetEntry(forward, ccyOut, SetEntry(forward[ccyOut], ccyIn, 1))

\* for (let ccyOut in allAggregators[network][ccyIn])
RECURSIVE ForInOutputs(_, _, _)
ForInOutputs(nodes, ccyIn, outputs) ==
  IF outputs = {} THEN nodes
  ELSE LET ccyOut == CHOOSE o \in outputs : TRUE
       IN ForInOutputs(AddEdge(nodes, ccyIn, toLowerCase(ccyOut)), ccyIn,
                       outputs \ {ccyOut})

\* for (let ccyIn in allAggregators[network])
RECURSIVE ForInInputs(_, _, _)
ForInInputs(nodes, allAggregators, inputs) ==
  IF inputs = {} THEN nodes
  ELSE LET key == CHOOSE i \in inputs : TRUE
           ccyIn == toLowerCase(key)
       IN ForInInputs(ForInOutputs(EnsureNode(nodes, ccyIn), ccyIn,
                                   DOMAIN allAggregators[ccyIn]),
                      allAggregators, inputs \ {key})

\* aggregatorsNodesForDijkstra[network] built from allAggregators[network].
aggregatorsNodesForwardOnly(allAggregators) ==
  [ccyIn \in DOMAIN allAggregators |->
     [ccyOut \in DOMAIN allAggregators[ccyIn] |-> 1]]
aggregatorsNodes(allAggregators) ==
  ForInInputs(NoMap, allAggregators, DOMAIN allAggregators)

\* The path search run on aggregatorsNodesForDijkstra: unweighted
\* shortest path, breadth first. No path is the empty sequence.
NoPath == << >>

RECURSIVE BreadthFirst(_, _, _, _)
BreadthFirst(nodes, frontier, visited, to) ==
  IF frontier = {} THEN NoPath
  ELSE IF \E path \in frontier : path[Len(path)] = to
    THEN CHOOSE path \in frontier : path[Len(path)] = to
  ELSE LET next == UNION { { Append(path, n) :
                               n \in DOMAIN nodes[path[Len(path)]] \ visited } :
                           path \in frontier }
       IN BreadthFirst(nodes, next,
                       visited \cup { path[Len(path)] : path \in next }, to)

findPath(nodes, from, to) ==
  IF from \notin DOMAIN nodes THEN NoPath
  ELSE BreadthFirst(nodes, {<<from>>}, {from}, to)

\* Inputs: the logs a provider can return.
LogUniverse ==
  { AggregatorUpdated(i, UsdHash, a) :
      i \in {EurHash, EurLower}, a \in {AddressZero, Aggregator1, Aggregator2} }
  \cup { AggregatorUpdated(EurHash, DaiChecksum, a) : a \in {AddressZero, Aggregator1} }
  \cup { AggregatorUpdated(UsdHash, o, a) :
           o \in {DaiChecksum, TokDai}, a \in {AddressZero, Aggregator1} }
  \cup { AggregatorUpdated(DaiChecksum, UsdHash, Aggregator1) }

LogLists == UNION { [1..n -> LogUniverse] : n \in 0..MaxLogs }

PathCurrencies == {EurLower, UsdLower, TokDai}

InitTools ==
  /\ logs \in LogLists
  /\ aggregators = [called |-> FALSE]
  /\ nodesForDijkstra = [built |-> FALSE]
  /\ pathResult = [called |-> FALSE]
  /\ ExtensionIdle /\ BalanceIdle /\ ProxyIdle /\ ConfigIdle /\ PaymentIdle

\* chainlinkConversionPathTools.getAggregators() called on its own.
GetAggregators ==
  /\ ~aggregators.called
  /\ aggregators' = [called |-> TRUE,
                     aggregatorsMaps |-> getAggregators(logs).aggregatorsMaps,
                     aggregatorsAsObject |-> getAggregators(logs).aggregatorsAsObject]
  /\ UNCHANGED <<logs, nodesForDijkstra, pathResult>>
  /\ UNCHANGED <<extensionVars, balanceVars, proxyVars, configVars, paymentVars>>

\* listAggregators for one network: getAggregators, then the graph of pairs.
ListAggregators ==
  /\ ~nodesForDijkstra.built
  /\ aggregators' = [called |-> TRUE,
                     aggregatorsMaps |-> getAggregators(logs).aggregatorsMaps,
                     aggregatorsAsObject |-> getAggregators(logs).aggregatorsAsObject]
  /\ nodesForDijkstra' =
       [built |-> TRUE,
        nodes |-> aggregatorsNodes(getAggregators(logs).aggregatorsAsObject)]
  /\ UNCHANGED <<logs, pathResult>>
  /\ UNCHANGED <<extensionVars, balanceVars, proxyVars, configVars, paymentVars>>

\* A path is searched on the graph that was built.
FindPath ==
  /\ nodesForDijkstra.built
  /\ \E from \in PathCurrencies, to \in PathCurrencies :
       pathResult' = [called |-> TRUE, from |-> from, to |-> to,
                      path |-> findPath(nodesForDijkstra.nodes, from, to)]
  /\ UNCHANGED <<logs, aggregators, nodesForDijkstra>>
  /\ UNCHANGED <<extensionVars, balanceVars, proxyVars, configVars, paymentVars>>

NextTools ==
  \/ GetAggregators
  \/ ListAggregators
  \/ FindPath

SpecTools == InitTools /\ [][NextTools]_vars

----------------------------------------------------------------------------
(* Claims about getAggregators and the pair graph (SpecTools) *)

CurrencyHashes == {EurHash, UsdHash, DaiChecksum}
CurrencySpellings == {EurHash, EurLower, UsdHash, UsdLower, DaiChecksum, TokDai}
LiveAggregators == {Aggregator1, Aggregator2}

\* Two spellings of one address.
SameAddress(a, b) == toLowerCase(a) = toLowerCase(b)

\* The position of the last event of a stream for a pair, 0 if there is none.
LastEventFor(logList, input, output) ==
  LET positions == { k \in 1..Len(logList) :
                       /\ SameAddress(logList[k]._input, input)
                       /\ SameAddress(logList[k]._output, output) }
  IN IF positions = {} THEN 0
     ELSE CHOOSE k \in positions : \A other \in positions : other <= k

\* The pairs whose last event carries a non-zero aggregator, with it.
LivePairs(logList) ==
  LET last == [pair \in CurrencyHashes \X CurrencyHashes |->
                 LastEventFor(logList, pair[1], pair[2])]
  IN { <<pair[1], pair[2], logList[last[pair]]._aggregator>> :
         pair \in { pair \in CurrencyHashes \X CurrencyHashes :
                      /\ last[pair] # 0
                      /\ logList[last[pair]]._aggregator # AddressZero } }

\* The (input, output, aggregator) entries of a folded Map.
MapEdges(map) ==
  UNION { { <<map[k].key, map[k].value[j].key, map[k].value[j].value>> :
              j \in 1..Len(map[k].value) } : k \in 1..Len(map) }

\* The (input, output, aggregator) entries of a returned object.
ObjectEdges(object) ==
  UNION { { <<i, o, object[i][o]>> : o \in DOMAIN object[i] } : i \in DOMAIN object }

\* Two folded Maps hold the same inputs with the same outputs.
SameMap(left, right) ==
  /\ MapEdges(left) = MapEdges(right)
  /\ { left[k].key : k \in 1..Len(left) } = { right[k].key : k \in 1..Len(right) }
  /\ Len(left) = Len(right)

SameObject(left, right) ==
  /\ DOMAIN left = DOMAIN right
  /\ ObjectEdges(left) = ObjectEdges(right)

SameAggregators(left, right) ==
  /\ SameMap(left.aggregatorsMaps, right.aggregatorsMaps)
  /\ SameObject(left.aggregatorsAsObject, right.aggregatorsAsObject)

\* C16: rebuilding the aggregator map does not drift: replaying the stream
\* on top of itself gives the map of the stream, and for every pair of the
\* map, a zero-address update of the pair followed by an update that re-adds
\* its aggregator gives a map equal to the one before the two events.
C16_RebuildRestoresMap ==
  aggregators.called =>
    /\ SameAggregators(getAggregators(logs \o logs), aggregators)
    /\ \A edge \in MapEdges(aggregators.aggregatorsMaps) :
         SameAggregators(
           getAggregators(logs \o <<AggregatorUpdated(edge[1], edge[2], AddressZero),
                                    AggregatorUpdated(edge[1], edge[2], edge[3])>>),
           aggregators)

\* The map holds an input with two outputs, one of them re-added after a
\* removal.
C16_Witness ==
  /\ aggregators.called
  /\ \E k \in 1..Len(aggregators.aggregatorsMaps) :
       Len(aggregators.aggregatorsMaps[k].value) = 2
  /\ \E k \in 1..Len(logs) : logs[k]._aggregator = AddressZero

\* The currencies of the graph the logs describe, and its undirected edges.
GraphEdges ==
  UNION { { <<toLowerCase(edge[1]), toLowerCase(edge[2])>>,
            <<toLowerCase(edge[2]), toLowerCase(edge[1])>> } : edge \in LivePairs(logs) }

GraphNodes == { edge[1] : edge \in GraphEdges }

\* Every walk of the graph from one currency to another over at most all
\* the currencies.
WalksBetween(from, to) ==
  LET edges == GraphEdges IN
  { walk \in UNION { [1..n -> PathCurrencies] : n \in 1..Cardinality(PathCurrencies) } :
      /\ walk[1] = from
      /\ walk[Len(walk)] = to
      /\ from \in { edge[1] : edge \in edges }
      /\ \A k \in 1..(Len(walk) - 1) : <<walk[k], walk[k + 1]>> \in edges }

\* C17: the path found on the graph listAggregators builds is a path of the
\* bidirectional graph of the live pairs with the fewest hops, and no path is
\* reported exactly when the two currencies are not connected; with EUR-USD
\* and USD-DAI and no EUR-DAI edge the path from EUR to DAI is [EUR, USD, DAI].
C17_ShortestPath ==
  pathResult.called =>
    LET walks == WalksBetween(pathResult.from, pathResult.to) IN
    /\ walks = {} <=> pathResult.path = NoPath
    /\ walks # {} =>
         /\ pathResult.path \in walks
         /\ \A walk \in walks : Len(pathResult.path) <= Len(walk)

C17_Witness ==
  /\ pathResult.called
  /\ pathResult.from = EurLower
  /\ pathResult.to = TokDai
  /\ <<EurLower, TokDai>> \notin GraphEdges
  /\ \E k \in 1..Len(logs) :
       SameAddress(logs[k]._input, DaiChecksum) /\ SameAddress(logs[k]._output, UsdHash)
  /\ pathResult.path = <<EurLower, UsdLower, TokDai>>

\* C19: after the fold the map holds (input -> output -> aggregator) exactly
\* for the pairs whose last event carries that non-zero aggregator, each pair
\* once, and no input is left with an empty set of outputs.
C19_MapHoldsLastEvents ==
  aggregators.called =>
    LET map == aggregators.aggregatorsMaps IN
    /\ MapEdges(map) = LivePairs(logs)
    /\ \A k \in 1..Len(map) : map[k].value # << >>
    /\ \A k \in 1..Len(map), l \in 1..Len(map) : map[k].key = map[l].key => k = l
    /\ \A k \in 1..Len(map) : \A j \in 1..Len(map[k].value), l \in 1..Len(map[k].value) :
         map[k].value[j].key = map[k].value[l].key => j = l

\* A pair was updated twice and holds the later aggregator, another pair was
\* removed and its input went with it.
C19_Witness ==
  /\ aggregators.called
  /\ Len(logs) = 3
  /\ logs[1]._aggregator = Aggregator1
  /\ logs[2]._aggregator = Aggregator2
  /\ logs[3]._aggregator = AddressZero
  /\ MapEdges(aggregators.aggregatorsMaps) = {<<EurHash, UsdHash, Aggregator2>>}
  /\ SameAddress(logs[3]._input, UsdHash)

\* A stream with every input and output identifier in lower case.
LowerCased(logList) ==
  [k \in 1..Len(logList) |->
     AggregatorUpdated(toLowerCase(logList[k]._input), toLowerCase(logList[k]._output),
                       logList[k]._aggregator)]

Spellings(key) == { spelling \in CurrencySpellings : toLowerCase(spelling) = key }

\* C20: every key of the returned map is lower-case; a stream and the same
\* stream spelled in lower case give the same returned map; a zero-address
\* update removes the edge of its pair however either event spells the pair;
\* the returned map holds every pair whose last event carries a non-zero
\* aggregator, whatever the spellings.
C20_CaseInsensitive ==
  aggregators.called =>
    LET object == aggregators.aggregatorsAsObject IN
    /\ \A i \in DOMAIN object :
         /\ toLowerCase(i) = i
         /\ \A o \in DOMAIN object[i] : toLowerCase(o) = o
    /\ SameObject(getAggregators(LowerCased(logs)).aggregatorsAsObject, object)
    /\ \A i \in DOMAIN object : \A o \in DOMAIN object[i] :
         \A si \in Spellings(i), so \in Spellings(o) :
           LET after == getAggregators(
                          Append(logs, AggregatorUpdated(si, so, AddressZero))
                        ).aggregatorsAsObject
           IN ~(i \in DOMAIN after /\ o \in DOMAIN after[i])
    /\ ObjectEdges(object) =
         { <<toLowerCase(edge[1]), toLowerCase(edge[2]), edge[3]>> :
             edge \in LivePairs(logs) }

\* An edge inserted under one spelling of its input was removed by a
\* zero-address update under the other spelling, and another edge is returned.
C20_Witness ==
  /\ aggregators.called
  /\ Len(logs) = 3
  /\ logs[1] = AggregatorUpdated(EurHash, UsdHash, Aggregator1)
  /\ logs[3] = AggregatorUpdated(EurLower, UsdHash, AddressZero)
  /\ logs[2]._input = UsdHash
  /\ DOMAIN aggregators.aggregatorsAsObject = {UsdLower}

\* The pairs (input, output) of the folded Map, spelled as the graph spells
\* its currencies.
AggregatorEntries ==
  { <<toLowerCase(edge[1]), toLowerCase(edge[2])>> :
      edge \in MapEdges(aggregators.aggregatorsMaps) }

\* C21: the graph listAggregators builds is symmetric with unit weights:
\* every aggregator entry input -> output gives graph[input][output] = 1 and
\* graph[output][input] = 1, every input and output is a node, and every
\* edge of the graph comes from an entry or its reverse.
C21_GraphSymmetricUnitWeights ==
  nodesForDijkstra.built =>
    LET graph == nodesForDijkstra.nodes IN
    /\ \A entry \in AggregatorEntries :
         /\ entry[1] \in DOMAIN graph
         /\ entry[2] \in DOMAIN graph
         /\ entry[2] \in DOMAIN graph[entry[1]]
         /\ graph[entry[1]][entry[2]] = 1
         /\ entry[1] \in DOMAIN graph[entry[2]]
         /\ graph[entry[2]][entry[1]] = 1
    /\ \A ccyIn \in DOMAIN graph : \A ccyOut \in DOMAIN graph[ccyIn] :
         \/ <<ccyIn, ccyOut>> \in AggregatorEntries
         \/ <<ccyOut, ccyIn>> \in AggregatorEntries

C21_Witness ==
  /\ nodesForDijkstra.built
  /\ AggregatorEntries = {<<EurLower, UsdLower>>, <<UsdLower, TokDai>>}
  /\ DOMAIN nodesForDijkstra.nodes = {EurLower, UsdLower, TokDai}
  /\ DOMAIN nodesForDijkstra.nodes[UsdLower] = {EurLower, TokDai}
  /\ \E k \in 1..Len(logs) : logs[k]._aggregator = AddressZero

----------------------------------------------------------------------------
(* Part 5: request-node configuration getters (config.ts) *)

\* defaultValues
DefaultNetworkId == 0
DefaultMnemonic ==
  "candy maple cake sugar pudding cream honey rich smooth crumble sweet treat"

ErrMnemonicRequired ==
  "the environment variable MNEMONIC must be set up. The default mnemonic is only for private network."

\* Number(value) on the strings of the model; NaN is a number of its own.
Number(value) ==
  CASE value = "" -> [nan |-> FALSE, value |-> 0]
    [] value = "0" -> [nan |-> FALSE, value |-> 0]
    [] value = "1" -> [nan |-> FALSE, value |-> 1]
    [] value = "4" -> [nan |-> FALSE, value |-> 4]
    [] OTHER -> [nan |-> TRUE, value |-> 0]

\* `value && Number(value)` is truthy: the value is neither undefined nor
\* empty and its number is neither 0 nor NaN.
AndNumberTruthy(value) ==
  value # Undefined /\ ~Number(value).nan /\ Number(value).value # 0

\* getStorageNetworkId(): argv, then the environment, then the default.
getStorageNetworkId ==
  IF AndNumberTruthy(argv.networkId) THEN Number(argv.networkId).value
  ELSE IF AndNumberTruthy(env.ETHEREUM_NETWORK_ID)
    THEN Number(env.ETHEREUM_NETWORK_ID).value
  ELSE DefaultNetworkId

\* getStorageNetworkId() !== 0
NotPrivateNever(networkId) == FALSE
NotPrivate(networkId) == networkId # 0

\* getMnemonic()
getMnemonic ==
  IF env.MNEMONIC = Undefined
    THEN IF NotPrivate(getStorageNetworkId)
           THEN [err |-> ErrMnemonicRequired]
           ELSE [err |-> NoError, ret |-> DefaultMnemonic]
    ELSE [err |-> NoError, ret |-> env.MNEMONIC]

\* Inputs: command line and environment of the node.
NetworkIdSettings == {Undefined, "0", "1", "4", "abc"}
MnemonicSettings == {Undefined, "custom mnemonic of the operator", DefaultMnemonic}

InitConfig ==
  /\ \E networkId \in NetworkIdSettings, port \in {Undefined, "0", "4"},
        ipfsPort \in {Undefined, "0", "4"}, ipfsTimeout \in {Undefined, "0", "4"} :
       argv = [networkId |-> networkId, port |-> port, ipfsPort |-> ipfsPort,
               ipfsTimeout |-> ipfsTimeout]
  /\ \E networkId \in NetworkIdSettings, mnemonic \in MnemonicSettings,
        port \in {Undefined, "1"}, ipfsPort \in {Undefined, "1"},
        ipfsTimeout \in {Undefined, "1"} :
       env = [ETHEREUM_NETWORK_ID |-> networkId, MNEMONIC |-> mnemonic,
              PORT |-> port, IPFS_PORT |-> ipfsPort, IPFS_TIMEOUT |-> ipfsTimeout]
  /\ networkIdResult = [called |-> FALSE]
  /\ mnemonicResult = [called |-> FALSE]
  /\ numberResult = [called |-> FALSE]
  /\ ExtensionIdle /\ BalanceIdle /\ ProxyIdle /\ ToolsIdle /\ PaymentIdle

GetStorageNetworkId ==
  /\ ~networkIdResult.called
  /\ networkIdResult' = [called |-> TRUE, ret |-> getStorageNetworkId]
  /\ UNCHANGED <<argv, env, mnemonicResult, numberResult>>
  /\ UNCHANGED <<extensionVars, balanceVars, proxyVars, toolVars, paymentVars>>

GetMnemonic ==
  /\ ~mnemonicResult.called
  /\ mnemonicResult' = [called |-> TRUE, out |-> getMnemonic]
  /\ UNCHANGED <<argv, env, networkIdResult, numberResult>>
  /\ UNCHANGED <<extensionVars, balanceVars, proxyVars, toolVars, paymentVars>>

\* getServerPort(), lines 43-49.
GetServerPort ==
  /\ ~numberResult.called
  /\ numberResult' =
       [called |-> TRUE, getter |-> "getServerPort",
        ret |-> IF AndNumberTruthy(argv.port) THEN Number(argv.port).value
                ELSE IF AndNumberTruthy(env.PORT) THEN Number(env.PORT).value
                ELSE 3000]
  /\ UNCHANGED <<argv, env, networkIdResult, mnemonicResult>>
  /\ UNCHANGED <<extensionVars, balanceVars, proxyVars, toolVars, paymentVars>>

\* getIpfsPort(), lines 102-108.
GetIpfsPort ==
  /\ ~numberResult.called
  /\ numberResult' =
       [called |-> TRUE, getter |-> "getIpfsPort",
        ret |-> IF AndNumberTruthy(argv.ipfsPort) THEN Number(argv.ipfsPort).value
                ELSE IF AndNumberTruthy(env.IPFS_PORT)
                  THEN Number(env.IPFS_PORT).value
                ELSE 5001]
  /\ UNCHANGED <<argv, env, networkIdResult, mnemonicResult>>
  /\ UNCHANGED <<extensionVars, balanceVars, proxyVars, toolVars, paymentVars>>

\* getIpfsTimeout(), lines 124-130.
GetIpfsTimeout ==
  /\ ~numberResult.called
  /\ numberResult' =
       [called |-> TRUE, getter |-> "getIpfsTimeout",
        ret |-> IF AndNumberTruthy(argv.ipfsTimeout)
                  THEN Number(argv.ipfsTimeout).value
                ELSE IF AndNumberTruthy(env.IPFS_TIMEOUT)
                  THEN Number(env.IPFS_TIMEOUT).value
                ELSE 10000]
  /\ UNCHANGED <<argv, env, networkIdResult, mnemonicResult>>
  /\ UNCHANGED <<extensionVars, balanceVars, proxyVars, toolVars, paymentVars>>

NextConfig ==
  \/ GetStorageNetworkId
  \/ GetMnemonic
  \/ GetServerPort
  \/ GetIpfsPort
  \/ GetIpfsTimeout

SpecConfig == InitConfig /\ [][NextConfig]_vars

----------------------------------------------------------------------------
(* Claims about the configuration getters (SpecConfig) *)

\* The network id a setting asks for: a non-zero number, or nothing.
ConfiguredId(setting) ==
  CASE setting = "1" -> 1
    [] setting = "4" -> 4
    [] OTHER -> 0

\* The storage network id: the first non-zero id configured, argv before
\* the environment, 0 when there is none.
StorageNetworkId ==
  IF ConfiguredId(argv.networkId) # 0 THEN ConfiguredId(argv.networkId)
  ELSE ConfiguredId(env.ETHEREUM_NETWORK_ID)

\* C18: getMnemonic returns MNEMONIC whenever it is set; when it is not set it
\* returns the default mnemonic if the storage network id is 0 and throws
\* otherwise, so the default branch never yields the default mnemonic for a
\* non-zero network id.
C18_DefaultMnemonicOnlyOnPrivate ==
  mnemonicResult.called =>
    /\ env.MNEMONIC # Undefined =>
         /\ mnemonicResult.out.err = NoError
         /\ mnemonicResult.out.ret = env.MNEMONIC
    /\ (env.MNEMONIC = Undefined /\ StorageNetworkId = 0) =>
         /\ mnemonicResult.out.err = NoError
         /\ mnemonicResult.out.ret = DefaultMnemonic
    /\ (env.MNEMONIC = Undefined /\ StorageNetworkId # 0) =>
         mnemonicResult.out.err = ErrMnemonicRequired
    /\ networkIdResult.called => networkIdResult.ret = StorageNetworkId

\* Without MNEMONIC and with network id 4 coming from the environment (argv
\* says 0), getMnemonic throws.
C18_Witness ==
  /\ mnemonicResult.called
  /\ networkIdResult.called
  /\ env.MNEMONIC = Undefined
  /\ argv.networkId = "0"
  /\ env.ETHEREUM_NETWORK_ID = "4"
  /\ mnemonicResult.out.err = ErrMnemonicRequired

\* A setting that is given and reads as a number.
NumericSetting(setting) == setting # Undefined /\ ~Number(setting).nan

\* Command line, then environment, then default, as C25 states the order.
Resolved(argument, variable, default) ==
  IF NumericSetting(argument) THEN Number(argument).value
  ELSE IF NumericSetting(variable) THEN Number(variable).value
  ELSE default

\* C25: each numeric getter returns the command-line value whenever one is
\* given (the value 0 included), otherwise the environment value whenever it
\* is set, otherwise the default. Settings that are not numbers are left out.
C25_ArgvThenEnvThenDefault ==
  /\ (/\ networkIdResult.called
      /\ argv.networkId # "abc" /\ env.ETHEREUM_NETWORK_ID # "abc") =>
       networkIdResult.ret = Resolved(argv.networkId, env.ETHEREUM_NETWORK_ID, 0)
  /\ (numberResult.called /\ numberResult.getter = "getServerPort") =>
       numberResult.ret = Resolved(argv.port, env.PORT, 3000)
  /\ (numberResult.called /\ numberResult.getter = "getIpfsPort") =>
       numberResult.ret = Resolved(argv.ipfsPort, env.IPFS_PORT, 5001)
  /\ (numberResult.called /\ numberResult.getter = "getIpfsTimeout") =>
       numberResult.ret = Resolved(argv.ipfsTimeout, env.IPFS_TIMEOUT, 10000)

----------------------------------------------------------------------------
(* Part 6: payment-processor ERC20 functions (unnamed/part_001, part_002) *)

\* At most MaxSubmits transactions are submitted to the multisig contract.
MaxSubmits == 2

ERC20_PROXY_CONTRACT == "pn-erc20-proxy-contract"
MultisigAddress == "0x8cdaf0cd259887258bc13a92c0a6da92698644c0"

\* erc20ProxyArtifact.getAddress(network): the ERC20 proxy deployed there.
erc20ProxyArtifactGetAddress(network) ==
  CASE network = "private" -> "0x2C2B9C9a4a25e24B174f26114e8926a9f2128FE4"
    [] network = "rinkeby" -> "0x162edb802fae75b9ee4288345735008ba51a4ec9"
    [] network = "mainnet" -> "0x5f821c20947ff9be22e823edc5b3c709b33121b3"

\* validateRequest(request, paymentNetworkId): the request carries the
\* extension of that payment network.
validateRequest(requestData, paymentNetworkId) ==
  paymentNetworkId \in requestData.extensions

InitPayment ==
  /\ \E network \in {"private", "rinkeby", "mainnet"},
        expectedAmount \in {<<"0">>, <<"1", "0", "0">>},
        extensions \in {{ERC20_PROXY_CONTRACT}, {PAYMENT_NETWORK_ERC20_ADDRESS_BASED}} :
       requestToPay = [currencyInfo |-> [type |-> ERC20, value |-> TokDai,
                                         network |-> network],
                       expectedAmount |-> expectedAmount,
                       extensions |-> extensions]
  /\ allowance \in {0, 99, 100, 101}
  /\ approvalResult = [called |-> FALSE]
  /\ submitted = << >>
  /\ ExtensionIdle /\ BalanceIdle /\ ProxyIdle /\ ToolsIdle /\ ConfigIdle

\* hasErc20Approval(request, account, provider), part_002 lines 50-61.
HasErc20Approval ==
  /\ approvalResult' =
       [called |-> TRUE, allowance |-> allowance,
        value |-> allowance > bigNumber(requestToPay.expectedAmount)]
  /\ UNCHANGED <<requestToPay, allowance, submitted>>
  /\ UNCHANGED <<extensionVars, balanceVars, proxyVars, toolVars, configVars>>

\* approveErc20(request, signerOrProvider), part_002 lines 69-84: the token's
\* approve(proxy, 2^256 - 1), mined.
ApproveErc20 ==
  /\ allowance' = MaxUint
  /\ UNCHANGED <<requestToPay, approvalResult, submitted>>
  /\ UNCHANGED <<extensionVars, balanceVars, proxyVars, toolVars, configVars>>

\* approveErc20WithMultisig(request, multisigAddress, signerOrProvider),
\* part_001 lines 18-38. `interfaceOf` is the contract whose interface encoded
\* the data.
ApproveErc20WithMultisig ==
  /\ Len(submitted) < MaxSubmits
  /\ LET tokenAddress == requestToPay.currencyInfo.value
         encodedApproveCall ==
           [interfaceOf |-> tokenAddress, function |-> "approve",
            args |-> <<erc20ProxyArtifactGetAddress(requestToPay.currencyInfo.network),
                       MaxUint>>]
     IN submitted' =
          IF ~validateRequest(requestToPay, ERC20_PROXY_CONTRACT) THEN submitted
          ELSE Append(submitted, [contract |-> MultisigAddress,
                                  destination |-> tokenAddress, value |-> 0,
                                  data |-> encodedApproveCall])
  /\ UNCHANGED <<requestToPay, allowance, approvalResult>>
  /\ UNCHANGED <<extensionVars, balanceVars, proxyVars, toolVars, configVars>>

\* payErc20WithMultisig(request, multisigAddress, signerOrProvider),
\* part_001 lines 45-66.
PayErc20WithMultisig ==
  /\ Len(submitted) < MaxSubmits
  /\ LET tokenAddress == requestToPay.currencyInfo.value
         proxyAddress == erc20ProxyArtifactGetAddress(requestToPay.currencyInfo.network)
         encodedApproveCall ==
           [interfaceOf |-> proxyAddress, function |-> "transferFromWithReference",
            args |-> <<tokenAddress, PayAddress, requestToPay.expectedAmount,
                       "0xaaaa">>]
     IN submitted' =
          IF ~validateRequest(requestToPay, ERC20_PROXY_CONTRACT) THEN submitted
          ELSE Append(submitted, [contract |-> MultisigAddress,
                                  destination |-> MultisigAddress, value |-> 0,
                                  data |-> encodedApproveCall])
  /\ UNCHANGED <<requestToPay, allowance, approvalResult>>
  /\ UNCHANGED <<extensionVars, balanceVars, proxyVars, toolVars, configVars>>

NextPayment ==
  \/ HasErc20Approval
  \/ ApproveErc20
  \/ ApproveErc20WithMultisig
  \/ PayErc20WithMultisig

SpecPayment == InitPayment /\ [][NextPayment]_vars

----------------------------------------------------------------------------
(* Claims about the payment functions (SpecPayment) *)

\* C24: hasErc20Approval returns true exactly when the allowance it read is
\* at least request.expectedAmount.
C24_ApprovalIffAllowanceSufficient ==
  approvalResult.called =>
    (approvalResult.value <=>
       approvalResult.allowance >= bigNumber(requestToPay.expectedAmount))

\* C28: every transaction submitted to the multisig goes to the contract
\* whose interface encoded its data (the token for approve, the ERC20 proxy
\* of the request's network for transferFromWithReference), and nothing is
\* submitted for a request that does not use the ERC20 proxy payment network.
C28_DestinationIsEncodingContract ==
  /\ submitted # << >> => validateRequest(requestToPay, ERC20_PROXY_CONTRACT)
  /\ \A k \in 1..Len(submitted) :
       /\ submitted[k].destination = submitted[k].data.interfaceOf
       /\ submitted[k].data.function = "approve" =>
            submitted[k].destination = requestToPay.currencyInfo.value
       /\ submitted[k].data.function = "transferFromWithReference" =>
            submitted[k].destination =
              erc20ProxyArtifactGetAddress(requestToPay.currencyInfo.network)

====
